---- MODULE Spec2Model ----
(***************************************************************************)
(* The ccterm Coordinator (src/src/coordinator.rs) with the collaborators  *)
(* it drives: the tmux session driver and wait_for_prompt                  *)
(* (src/src/sessions.rs), the hook-file tailers (src/src/hooks.rs), the    *)
(* transcript reader (src/src/context.rs) and the chat adapter             *)
(* (src/src/slack_adapter.rs).  The assistant inside each tmux session is  *)
(* a concurrent process: it accepts input, starts generating at some later *)
(* moment, appends the turn to its transcript and writes a Stop record to  *)
(* its hook file.                                                          *)
(***************************************************************************)
EXTENDS Integers, Sequences, FiniteSets, TLC

\* ------------------------------------------------------------------ bounds

\* Inbound chat messages taken off the inbound channel in one run.
MaxMsgs == 2

\* Hook records written that are not the Stop of a session of this run.
MaxOther == 1
\* lines of a transcript handed to read_history
MaxLines == 2
\* hooks of a settings template, and pieces of one hook command
MaxCmd == 2
\* characters of a thread id handed to sanitize_thread_id
MaxChars == 3
\* inbound messages where hook files get lines that do not parse
MaxHookMsgs == 1
\* bytes on the standard input of a hook command
MaxStdin == 2

\* ------------------------------------------------------------------ values

\* Option<T>: None is the empty sequence, Some(x) the one-element sequence.
NoneV == <<>>
Some(x) == <<x>>
IsSome(o) == o /= <<>>
Unwrap(o) == o[1]

\* Result<T>: Ok(x), or the Err that `?` hands to the caller.
Ok(x) == [ok |-> TRUE, val |-> x]
Err == [ok |-> FALSE, val |-> <<>>]

\* Conversation (channel) ids and thread ids the chat adapter delivers.
\* Thread ids are character sequences: they are what sanitize_thread_id maps.
\* Conversation ids are interchangeable, so they are numbered in the order in
\* which they first appear on the inbound channel.
ConvOrder == <<"c1", "c2">>
ConvIds == {ConvOrder[i] : i \in 1..Len(ConvOrder)}
ThreadIds == {<<"1", ".", "2">>, <<"1", "_", "2">>}

\* char::is_ascii_alphanumeric
AsciiAlnum ==
  {"0", "1", "2", "3", "4", "5", "6", "7", "8", "9",
   "a", "b", "c", "d", "e", "f", "g", "h", "i", "j", "k", "l", "m",
   "n", "o", "p", "q", "r", "s", "t", "u", "v", "w", "x", "y", "z",
   "A", "B", "C", "D", "E", "F", "G", "H", "I", "J", "K", "L", "M",
   "N", "O", "P", "Q", "R", "S", "T", "U", "V", "W", "X", "Y", "Z"}

\* struct ConversationKey { conversation_id, thread_id: Option<String> }
ConversationKey(conv, thr) == [conversation_id |-> conv, thread_id |-> thr]
Keys == {ConversationKey(c, t) : c \in ConvIds, t \in {NoneV} \cup {Some(x) : x \in ThreadIds}}

\* A directory path.  kind "base" is the configured working directory, kind
\* "thread" is <base>/.ccterm/threads/<name>.  alias marks a spelling of the
\* directory that is not the canonical one (through a symlink, or with `..`).
OtherDir(alias) == [kind |-> "other", name |-> <<>>, alias |-> alias]
BaseDir(alias) == [kind |-> "base", name |-> <<>>, alias |-> alias]
ThreadDir(name) == [kind |-> "thread", name |-> name, alias |-> FALSE]

\* fn normalize_path: path.canonicalize().unwrap_or(path); every directory the
\* model names exists, so canonicalize succeeds and yields the canonical
\* spelling.
normalize_path(path) == [path EXCEPT !.alias = FALSE]

\* sanitize_thread_id if the other characters were left out.
sanitize_thread_id_drop(thread_id) ==
  LET IsAlnum(c) == c \in AsciiAlnum IN SelectSeq(thread_id, IsAlnum)

\* fn sanitize_thread_id
sanitize_thread_id(thread_id) ==
  [i \in 1..Len(thread_id) |->
     IF thread_id[i] \in AsciiAlnum THEN thread_id[i] ELSE "_"]

\* Texts: the text of inbound message number n, the assistant's reply to it,
\* and a text that is empty after trimming.  As the content of a transcript
\* record a text stands for a string or for parts of type text that make it
\* up; NoTextParts is a content array without any part that has a text, such
\* as a turn of tool calls only.
MsgText(n) == [kind |-> "msg", n |-> n]
ReplyText(n) == [kind |-> "reply", n |-> n]
EmptyText == [kind |-> "empty", n |-> 0]
NoTextParts == [kind |-> "parts", n |-> 0]
\* text.trim().is_empty()
TrimIsEmpty(text) == text.kind = "empty"

\* ------------------------------------------------------------- transcript

\* A timestamp string of a transcript record: an ISO-8601 time either with
\* the suffix Z or with a numeric UTC offset, t seconds after the epoch.
IsoTimestamp(form, t) == [form |-> form, t |-> t]

\* fn parse_iso_ts_to_nanos: None unless the string ends in Z
parse_iso_ts_to_nanos(ts) == IF ts.form = "Z" THEN Some(ts.t) ELSE NoneV

\* A chat timestamp string, the cutoff of read_history: `seconds.fraction`,
\* or the seconds alone, or no number at all; t is the time it names.
SlackTimestamp(form, t) == [form |-> form, t |-> t]

\* parse_slack_ts_to_nanos if a string without '.' were read as seconds.
parse_slack_ts_lenient(ts) ==
  IF ts.form \in {"secs.frac", "secs"} THEN Some(ts.t) ELSE NoneV

\* fn parse_slack_ts_to_nanos: `ts.split_once('.')?`, then both parts parse
parse_slack_ts_to_nanos(ts) == IF ts.form = "secs.frac" THEN Some(ts.t) ELSE NoneV

\* fn extract_user_text / fn extract_assistant_text: the string, or the texts
\* of the parts joined; None when no part gave any text.
extract_user_text(content) ==
  IF content.kind = "parts" THEN NoneV ELSE Some(content)
extract_assistant_text(content) ==
  IF content.kind = "parts" THEN NoneV ELSE Some(content)

\* One line of a transcript file: type, the turn's uuid (assistant lines), the
\* text extracted from message.content, and the timestamp string.  The
\* assistant writes its records with a Z timestamp.
UserRecord(text, ts) ==
  [type |-> "user", uuid |-> NoneV, text |-> text,
   timestamp |-> Some(IsoTimestamp("Z", ts))]
AssistantRecord(uuid, text, ts) ==
  [type |-> "assistant", uuid |-> Some(uuid), text |-> text,
   timestamp |-> Some(IsoTimestamp("Z", ts))]

\* A line that is empty after trimming, and a line that is not JSON.
BlankLine == [type |-> "blank", uuid |-> NoneV, text |-> EmptyText, timestamp |-> NoneV]
MalformedLine ==
  [type |-> "malformed", uuid |-> NoneV, text |-> EmptyText, timestamp |-> NoneV]

\* The loop of latest_assistant_text_uuid over the lines read so far: `latest`
\* is replaced by every assistant line with non-empty text and a uuid; a
\* line serde_json::from_str rejects ends the function with its error.
RECURSIVE LatestLoop(_, _, _)
LatestLoop(lines, i, latest) ==
  IF i > Len(lines) THEN Ok(latest)
  ELSE LET value == lines[i]
           text == extract_assistant_text(value.text)
       IN
       IF value.type = "blank" THEN LatestLoop(lines, i + 1, latest)
       ELSE IF value.type = "malformed" THEN Err
       ELSE IF value.type /= "assistant" THEN LatestLoop(lines, i + 1, latest)
       ELSE IF ~IsSome(text) \/ TrimIsEmpty(Unwrap(text))
            THEN LatestLoop(lines, i + 1, latest)
       ELSE IF ~IsSome(value.uuid) THEN LatestLoop(lines, i + 1, latest)
       ELSE LatestLoop(lines, i + 1,
                       Some([uuid |-> Unwrap(value.uuid), text |-> Unwrap(text)]))

\* latest_assistant_text_uuid if the first assistant turn were kept.
RECURSIVE latest_assistant_first(_)
latest_assistant_first(lines) ==
  LET all == LatestLoop(lines, 1, NoneV) IN
  IF ~all.ok \/ lines = <<>> THEN all
  ELSE LET head == LatestLoop(<<Head(lines)>>, 1, NoneV) IN
       IF IsSome(head.val) THEN head ELSE latest_assistant_first(Tail(lines))

\* fn latest_assistant_text_uuid: Result<Option<(uuid, text)>>, on the lines
\* of the file
latest_assistant_text_uuid(lines) == LatestLoop(lines, 1, NoneV)

\* parse_transcript_line without the comparison with the cutoff.
parse_transcript_line_nocutoff(value, cutoff) ==
  LET text == IF value.type = "user" THEN extract_user_text(value.text)
              ELSE extract_assistant_text(value.text)
  IN
  IF value.type /= "user" /\ value.type /= "assistant" THEN NoneV
  ELSE IF ~IsSome(text) \/ TrimIsEmpty(Unwrap(text)) THEN NoneV
  ELSE Some([role |-> value.type, text |-> Unwrap(text)])

\* `if let (Some(cutoff), Some(ts)) = (cutoff_ts, timestamp)` with a ts that
\* parses to a time after the cutoff.
after_cutoff(value, cutoff) ==
  /\ IsSome(cutoff)
  /\ IsSome(value.timestamp)
  /\ IsSome(parse_iso_ts_to_nanos(Unwrap(value.timestamp)))
  /\ Unwrap(parse_iso_ts_to_nanos(Unwrap(value.timestamp))) > Unwrap(cutoff)

\* fn parse_transcript_line: Option<TranscriptMessage> under an optional cutoff
parse_transcript_line(value, cutoff) ==
  LET text == IF value.type = "user" THEN extract_user_text(value.text)
              ELSE extract_assistant_text(value.text)
  IN
  IF value.type /= "user" /\ value.type /= "assistant" THEN NoneV
  ELSE IF after_cutoff(value, cutoff) THEN NoneV
  ELSE IF ~IsSome(text) \/ TrimIsEmpty(Unwrap(text)) THEN NoneV
  ELSE Some([role |-> value.type, text |-> Unwrap(text)])

\* The loop of read_history: blank lines are passed over, a line that is not
\* JSON ends the function with its error.
RECURSIVE HistoryLoop(_, _, _, _)
HistoryLoop(lines, i, cutoff, out) ==
  IF i > Len(lines) THEN Ok(out)
  ELSE IF lines[i].type = "blank" THEN HistoryLoop(lines, i + 1, cutoff, out)
  ELSE IF lines[i].type = "malformed" THEN Err
  ELSE LET msg == parse_transcript_line(lines[i], cutoff) IN
       HistoryLoop(lines, i + 1, cutoff,
                   IF IsSome(msg) THEN Append(out, Unwrap(msg)) ELSE out)

\* read_history: `let cutoff = cutoff_ts.and_then(parse_slack_ts_to_nanos)`
parse_cutoff(cutoff_ts) ==
  IF IsSome(cutoff_ts) THEN parse_slack_ts_to_nanos(Unwrap(cutoff_ts)) ELSE NoneV

\* fn read_history: Result<Vec<TranscriptMessage>>, the messages of the lines
\* of the file in file order
read_history(lines, cutoff_ts) == HistoryLoop(lines, 1, parse_cutoff(cutoff_ts), <<>>)

\* fn format_history_context: None for an empty history
format_history_context(history) ==
  IF history = <<>> THEN NoneV ELSE Some(history)

\* ------------------------------------------------------------------- pane

\* One line of a pane capture after NBSP normalisation and trim_start: the
\* glyph it begins with ("prompt" for the prompt glyph, ">" or "none") and
\* whether the rest contains "esc to interrupt".
PaneLine(glyph, esc) == [glyph |-> glyph, esc |-> esc]

\* lines.iter().rev().take(20)
TailLines == 20

\* prompt_ready if any prompt line without "esc to interrupt" among the last
\* 20 lines made the pane ready.
prompt_ready_any(pane) ==
  LET first == IF Len(pane) > TailLines THEN Len(pane) - TailLines + 1 ELSE 1
  IN  \E i \in first..Len(pane) : pane[i].glyph \in {"prompt", ">"} /\ ~pane[i].esc

\* fn prompt_ready: the lowest of the last 20 lines that begins with a prompt
\* glyph decides; no such line means not ready.
prompt_ready(pane) ==
  LET first == IF Len(pane) > TailLines THEN Len(pane) - TailLines + 1 ELSE 1
      hits == {i \in first..Len(pane) : pane[i].glyph \in {"prompt", ">"}}
  IN  /\ hits /= {}
      /\ LET i == CHOOSE j \in hits : \A k \in hits : k <= j
         IN  ~pane[i].esc

\* What the pane of a session shows in each state of its assistant: no prompt
\* while starting; the input prompt while idle and after input was accepted
\* but generation has not started; "esc to interrupt" while generating.
AssistantPane(status) ==
  CASE status = "starting"   -> <<PaneLine("none", FALSE)>>
    [] status = "idle"       -> <<PaneLine("none", FALSE), PaneLine("prompt", FALSE)>>
    [] status = "received"   -> <<PaneLine("none", FALSE), PaneLine("prompt", FALSE)>>
    [] status = "generating" -> <<PaneLine("none", FALSE), PaneLine("prompt", TRUE)>>

\* ------------------------------------------------------------------ state

VARIABLES
  config,               \* Config: hooks.events_path.is_absolute()
  base_cwd,             \* Coordinator.base_cwd
  sessions_by_key,      \* Coordinator.sessions_by_key: key -> SessionEntry
  key_by_cwd,           \* Coordinator.key_by_cwd: workspace -> key
  main_by_conversation, \* Coordinator.main_by_conversation
  hook_paths_by_cwd,    \* Coordinator.hook_paths_by_cwd: workspace -> hook file
  pc,                   \* where run() is: "select" or inside handle_incoming
  cur,                  \* the locals of the handle_incoming in progress
  now,                  \* the wall clock, unix seconds
  nmsgs,                \* inbound messages received so far
  nconvs,               \* distinct conversation ids among them
  tmux,                 \* the multiplexer: session name -> session and assistant
  hook_files,           \* hook file -> the records appended to it
  tailer_pos,           \* workspace -> lines of its hook file its tailer has read
  claude_md,            \* workspace -> contents of CLAUDE.md (None: no file)
  outbox,               \* key -> the OutgoingMessages handed to SlackAdapter::send
  prompt_seen,          \* sessions with an Ok wait_for_prompt since their last send
  inbound,              \* the inbound channel: "open", or "closed" and drained
  nother,               \* hook records written that are not a session's Stop
  settings_json,        \* workspace -> contents of .claude/settings.json
  call                  \* the call of a pure function under study, with its result

vars == <<config, base_cwd, sessions_by_key, key_by_cwd, main_by_conversation,
          hook_paths_by_cwd, pc, cur, now, nmsgs, nconvs, tmux, hook_files,
          tailer_pos, claude_md, outbox, prompt_seen, inbound, nother,
          settings_json, call>>

\* The variables only the environment and the function calls under study set.
aux == <<inbound, nother, call>>

coord_maps == <<sessions_by_key, key_by_cwd, main_by_conversation, hook_paths_by_cwd>>

\* The workspaces and hook files that can exist.
Workspaces == {BaseDir(FALSE)} \cup {ThreadDir(sanitize_thread_id(t)) : t \in ThreadIds}
HookPaths == {NoneV} \cup {Some(w) : w \in Workspaces}

\* Map insertion (HashMap::insert).
Insert(map, k, v) == [x \in DOMAIN map \cup {k} |-> IF x = k THEN v ELSE map[x]]
EmptyMap == [x \in {} |-> 0]

\* Coordinator::new and the world it starts in, but for the files of the
\* thread workspaces.
InitCoordinator ==
  /\ config \in [events_path_absolute : BOOLEAN]
  \* Coordinator::new: base_cwd = normalize_path(config.claude.cwd)
  /\ \E claude_cwd \in {BaseDir(FALSE), BaseDir(TRUE)} : base_cwd = normalize_path(claude_cwd)
  /\ sessions_by_key = EmptyMap
  /\ key_by_cwd = EmptyMap
  /\ main_by_conversation = EmptyMap
  /\ hook_paths_by_cwd = EmptyMap
  /\ pc = "select"
  /\ cur = NoneV
  /\ now = 0
  /\ nmsgs = 0
  /\ nconvs = 0
  /\ tmux = EmptyMap
  /\ hook_files = [p \in HookPaths |-> <<>>]
  /\ tailer_pos = EmptyMap
  /\ outbox = [k \in Keys |-> <<>>]
  /\ prompt_seen = {}
  /\ inbound = "open"
  /\ nother = 0

\* The files of the workspaces: the base has the settings template, and a
\* thread workspace has the files given.
WorkspaceFiles(md, settings) ==
  /\ claude_md = [w \in Workspaces |-> IF w.kind = "base" THEN NoneV ELSE md[w]]
  /\ settings_json = [w \in Workspaces |->
                        IF w.kind = "base" THEN Some("template") ELSE settings[w]]

\* No thread workspace exists yet.
Init ==
  /\ InitCoordinator
  /\ call = NoneV
  /\ WorkspaceFiles([w \in Workspaces |-> NoneV], [w \in Workspaces |-> NoneV])

\* Thread workspaces may be left over from an earlier run, with their files.
InitSeed ==
  /\ InitCoordinator
  /\ call = NoneV
  /\ \E md, settings \in [Workspaces -> {NoneV, Some("old")}] :
       WorkspaceFiles(md, settings)

\* -------------------------------------------------------- session driver

\* A tmux session and the assistant running in it.  for_key records the
\* ConversationKey the session was spawned for.
NewSession(cwd, key) ==
  [cwd |-> cwd, status |-> "starting", inbox |-> <<>>, transcript |-> <<>>,
   for_key |-> key]

\* TmuxSessionManager::spawn_in(session_name, cwd): `tmux new-session -d -s
\* name -c cwd`; tmux refuses a session name that is already in use.
spawn_in(sessions, session_name, cwd, key, tmux_ok) ==
  IF tmux_ok /\ session_name \notin DOMAIN sessions
  THEN Insert(sessions, session_name, NewSession(cwd, key))
  ELSE sessions

\* TmuxSessionManager::capture_pane
capture_pane(session_name) == AssistantPane(tmux[session_name].status)

\* send if the pane took a new text before the texts it has queued.
tmux_send_front(sessions, session_name, text) ==
  [sessions EXCEPT ![session_name] =
     [@ EXCEPT !.inbox = <<text>> \o @,
               !.status = IF @ = "idle" THEN "received" ELSE @]]

\* TmuxSessionManager::send: the text and Enter reach the pane; an assistant
\* showing its input prompt accepts it, a busy one queues it.
tmux_send(sessions, session_name, text) ==
  [sessions EXCEPT ![session_name] =
     [@ EXCEPT !.inbox = Append(@, text),
               !.status = IF @ = "idle" THEN "received" ELSE @]]


\* ------------------------------------------------------------ coordinator

\* A SessionEntry made with a transcript path guessed from the session name.
SessionEntryWithPath(session_name) ==
  [session_name |-> session_name, last_transcript_path |-> Some(session_name),
   last_sent_message_uuid |-> NoneV]

\* struct SessionEntry as ensure_main_session and ensure_thread_session make it
SessionEntry(session_name) ==
  [session_name |-> session_name, last_transcript_path |-> NoneV,
   last_sent_message_uuid |-> NoneV]

IncomingMessage(text, conv, thr, timestamp) ==
  [text |-> text, conversation_id |-> conv, thread_id |-> thr, timestamp |-> timestamp]

\* Coordinator::hook_path_for_cwd: None is the one absolute events_path,
\* Some(cwd) is the relative events_path under cwd.
hook_path_for_cwd(cwd) ==
  IF config.events_path_absolute THEN NoneV ELSE Some(cwd)

\* Coordinator::register_hook_receiver: one tailer thread per workspace.  The
\* thread's HookFollower::open(path, true) seeks to the end of the file; here
\* it has run by the time register_hook_receiver returns.  A thread that gets
\* to its open later is the action TailerOpensLate.
register_hook_receiver(cwd, hook_path) ==
  LET ncwd == normalize_path(cwd) IN
  IF ncwd \in DOMAIN hook_paths_by_cwd
  THEN UNCHANGED <<hook_paths_by_cwd, tailer_pos>>
  ELSE /\ hook_paths_by_cwd' = Insert(hook_paths_by_cwd, ncwd, hook_path)
       /\ tailer_pos' = Insert(tailer_pos, ncwd, Len(hook_files[hook_path]))

\* ensure_thread_dir with the settings.json written on every call.
write_thread_settings_always(files, dir) ==
  [files EXCEPT ![dir] = Some("rendered")]

\* Coordinator::ensure_thread_dir: `if !settings_path.exists()` the rendered
\* template is written to <dir>/.claude/settings.json.
write_thread_settings(files, dir) ==
  IF IsSome(files[dir]) THEN files ELSE [files EXCEPT ![dir] = Some("rendered")]

\* Coordinator::ensure_thread_dir: <base>/.ccterm/threads/<sanitized>
ensure_thread_dir(thread_id) == normalize_path(ThreadDir(sanitize_thread_id(thread_id)))

\* run() if the error of handle_incoming were returned with `?`.
incoming_error_returns ==
  /\ pc' = "returned"
  /\ cur' = NoneV

\* run(): `if let Err(err) = self.handle_incoming(..).await { eprintln!(..) }`:
\* the error is logged and the loop goes on.
incoming_error ==
  /\ pc' = "select"
  /\ cur' = NoneV

\* enqueue_send without its wait_for_prompt: straight to the send.
enqueue_send_nowait(entry, text) ==
  /\ pc' = "sending"
  /\ cur' = Some([session_name |-> entry.session_name, text |-> text])

\* Coordinator::enqueue_send, entered: wait_for_prompt comes first.
enqueue_send(entry, text) ==
  /\ pc' = "send_wait"
  /\ cur' = Some([session_name |-> entry.session_name, text |-> text])

\* SystemTime::now() in unix seconds: still the second in which the newest
\* session was named, or a later one.  Seconds are counted by rank: only their
\* order and equality are observed (session names, transcript timestamps).
ClockReads == {now} \cup (IF now \in DOMAIN tmux THEN {now + 1} ELSE {})

\* ensure_main_session / ensure_thread_session from the hook registration to
\* spawn_in, for a key with no entry yet.
Provision(key, cwd, msg) ==
  /\ register_hook_receiver(cwd, hook_path_for_cwd(cwd))
  /\ \E t \in ClockReads, tmux_ok \in BOOLEAN :
       \* timestamp_session_name reads the clock
       /\ now' = t
       /\ tmux' = spawn_in(tmux, t, cwd, key, tmux_ok)
       /\ IF tmux' /= tmux
          THEN /\ pc' = "prov_wait"
               /\ cur' = Some([session_name |-> t, text |-> msg.text, key |-> key,
                               cwd |-> cwd, timestamp |-> msg.timestamp])
          ELSE incoming_error

\* Coordinator::ensure_main_session up to its first blocking call
ensure_main_session(msg) ==
  LET conv == msg.conversation_id
      key == IF conv \in DOMAIN main_by_conversation
             THEN main_by_conversation[conv]
             ELSE ConversationKey(conv, NoneV)
  IN  /\ main_by_conversation' = Insert(main_by_conversation, conv, key)
      /\ UNCHANGED settings_json
      /\ IF key \in DOMAIN sessions_by_key
         THEN /\ enqueue_send(sessions_by_key[key], msg.text)
              /\ UNCHANGED <<hook_paths_by_cwd, tailer_pos, now, tmux>>
         ELSE Provision(key, base_cwd, [msg EXCEPT !.timestamp = NoneV])

\* Coordinator::ensure_thread_session up to its first blocking call
ensure_thread_session(msg) ==
  LET key == ConversationKey(msg.conversation_id, msg.thread_id)
  IN  /\ UNCHANGED main_by_conversation
      /\ IF key \in DOMAIN sessions_by_key
         THEN /\ enqueue_send(sessions_by_key[key], msg.text)
              /\ UNCHANGED <<hook_paths_by_cwd, tailer_pos, now, tmux, settings_json>>
         ELSE LET cwd == ensure_thread_dir(Unwrap(msg.thread_id)) IN
              /\ settings_json' = write_thread_settings(settings_json, cwd)
              /\ Provision(key, cwd, msg)

\* run() if select! were polled while a handler is still in progress.
at_select_any == TRUE

\* run() is at `tokio::select!`: the handler of the previous event, awaited
\* inside its branch, has returned.
at_select == pc = "select"

\* run(): the inbound branch of select!, then handle_incoming up to the first
\* wait_for_prompt.  The chat adapter delivers at most `limit` messages, from
\* the first `convs` conversations, in the main channel or in a thread of
\* `threads`.
Inbound(limit, convs, threads) ==
  /\ at_select
  /\ inbound = "open"
  /\ nmsgs < limit
  /\ nmsgs' = nmsgs + 1
  /\ \E c \in 1..convs, thr \in {NoneV} \cup {Some(x) : x \in threads},
        timestamp \in {NoneV} \cup {Some(SlackTimestamp("secs.frac", t)) : t \in 0..now} :
       LET msg == IncomingMessage(MsgText(nmsgs + 1), ConvOrder[c], thr, timestamp)
       IN  /\ c <= nconvs + 1
           /\ nconvs' = IF c > nconvs THEN c ELSE nconvs
           /\ IF msg.thread_id = NoneV
              THEN ensure_main_session(msg)
              ELSE ensure_thread_session(msg)
  /\ UNCHANGED <<config, base_cwd, aux, sessions_by_key, key_by_cwd, hook_files,
                 claude_md, outbox, prompt_seen>>

\* Two conversations, each with its main channel and one thread.
HandleIncoming == Inbound(MaxMsgs, Len(ConvOrder), {<<"1", ".", "2">>})

\* One conversation with its main channel and two threads.
HandleIncomingThreads == Inbound(MaxMsgs, 1, ThreadIds)

\* One conversation with its main channel and one thread.
HandleIncomingConv == Inbound(MaxMsgs, 1, {<<"1", ".", "2">>})

\* One conversation, main channel only.
HandleIncomingOne == Inbound(MaxMsgs, 1, {})

\* Two conversations, main channels only, one message more.
HandleIncomingMain == Inbound(MaxMsgs + 1, Len(ConvOrder), {})

\* An assistant that is not a session of this run (session names of the run
\* are counted from 0), and a transcript path that cannot be opened.
OtherSession == 0 - 1
MissingPath == 0 - 2

\* The transcript of the other assistant.
OtherTranscript ==
  <<AssistantRecord([session |-> OtherSession, n |-> 1], ReplyText(0), 0)>>

\* The lines of the file at a transcript path: those of the session's
\* transcript, or of the other assistant's; none at a path without file.
transcript_lines(path) ==
  IF path \in DOMAIN tmux THEN tmux[path].transcript
  ELSE IF path = OtherSession THEN OtherTranscript
  ELSE <<>>

\* File::open(path) in read_history and latest_assistant_text_uuid succeeds.
can_open(path) == path \in DOMAIN tmux \/ path = OtherSession

\* context::read_history(path, cutoff_ts) and
\* context::latest_assistant_text_uuid(path), from the open on.
read_history_at(path, cutoff_ts) ==
  IF can_open(path) THEN read_history(transcript_lines(path), cutoff_ts) ELSE Err
latest_assistant_text_uuid_at(path) ==
  IF can_open(path) THEN latest_assistant_text_uuid(transcript_lines(path)) ELSE Err

\* Coordinator::build_thread_context: Result<Option<String>>
build_thread_context(msg) ==
  IF msg.conversation_id \notin DOMAIN main_by_conversation THEN Ok(NoneV)
  ELSE LET main_key == main_by_conversation[msg.conversation_id] IN
       IF main_key \notin DOMAIN sessions_by_key THEN Ok(NoneV)
       ELSE LET main_entry == sessions_by_key[main_key] IN
            IF ~IsSome(main_entry.last_transcript_path) THEN Ok(NoneV)
            ELSE LET history == read_history_at(Unwrap(main_entry.last_transcript_path),
                                                msg.timestamp)
                 IN  IF ~history.ok THEN Err
                     ELSE Ok(format_history_context(history.val))

\* ensure_thread_context without its `path.exists()` test.
ensure_thread_context_overwrite(cwd, msg) ==
  LET context == build_thread_context(msg) IN
  IF ~context.ok THEN Err
  ELSE IF ~IsSome(context.val) THEN Ok(claude_md)
  ELSE Ok([claude_md EXCEPT ![cwd] = context.val])

\* Coordinator::ensure_thread_context: Result of the CLAUDE.md files afterwards
ensure_thread_context(cwd, msg) ==
  LET context == build_thread_context(msg) IN
  IF ~context.ok THEN Err
  ELSE IF ~IsSome(context.val) THEN Ok(claude_md)
  ELSE IF IsSome(claude_md[cwd]) THEN Ok(claude_md)
  ELSE Ok([claude_md EXCEPT ![cwd] = context.val])

\* wait_for_prompt returned Ok inside ensure_main_session / ensure_thread_session:
\* the rest of the function, then enqueue_send is entered.  An error of
\* ensure_thread_context leaves the function before the maps are written.
ProvisionReady ==
  /\ pc = "prov_wait"
  /\ LET c == Unwrap(cur)
         entry == SessionEntry(c.session_name)
         context == IF IsSome(c.key.thread_id)
                    THEN ensure_thread_context(c.cwd,
                           IncomingMessage(c.text, c.key.conversation_id,
                                           c.key.thread_id, c.timestamp))
                    ELSE Ok(claude_md)
     IN  /\ prompt_ready(capture_pane(c.session_name))
         /\ prompt_seen' = prompt_seen \cup {c.session_name}
         /\ IF context.ok
            THEN /\ claude_md' = context.val
                 /\ sessions_by_key' = Insert(sessions_by_key, c.key, entry)
                 /\ key_by_cwd' = Insert(key_by_cwd, c.cwd, c.key)
                 /\ enqueue_send(entry, c.text)
            ELSE /\ incoming_error
                 /\ UNCHANGED <<claude_md, sessions_by_key, key_by_cwd>>
  /\ UNCHANGED <<config, base_cwd, aux, settings_json, main_by_conversation, hook_paths_by_cwd, now,
                 nmsgs, nconvs, tmux, hook_files, tailer_pos, outbox>>

\* ProvisionReady in the steps of the code.  First, wait_for_prompt returned
\* Ok inside ensure_main_session / ensure_thread_session.
PromptShown ==
  /\ pc = "prov_wait"
  /\ prompt_ready(capture_pane(Unwrap(cur).session_name))
  /\ prompt_seen' = prompt_seen \cup {Unwrap(cur).session_name}
  /\ pc' = "prov_context"
  /\ UNCHANGED <<config, base_cwd, aux, settings_json, coord_maps, cur, now, nmsgs, nconvs,
                 tmux, hook_files, tailer_pos, claude_md, outbox>>

\* The context step if it did not wait for wait_for_prompt.
WriteContextUnready ==
  /\ pc = "prov_wait"
  /\ LET c == Unwrap(cur)
         context == IF IsSome(c.key.thread_id)
                    THEN ensure_thread_context(c.cwd,
                           IncomingMessage(c.text, c.key.conversation_id,
                                           c.key.thread_id, c.timestamp))
                    ELSE Ok(claude_md)
     IN  IF context.ok
         THEN claude_md' = context.val /\ pc' = "prov_insert" /\ UNCHANGED cur
         ELSE incoming_error /\ UNCHANGED claude_md
  /\ UNCHANGED <<config, base_cwd, aux, settings_json, coord_maps, now, nmsgs, nconvs,
                 tmux, hook_files, tailer_pos, outbox, prompt_seen>>

\* Then ensure_thread_session: `self.ensure_thread_context(&cwd, msg)?`;
\* ensure_main_session has no such step.
WriteContext ==
  /\ pc = "prov_context"
  /\ LET c == Unwrap(cur)
         context == IF IsSome(c.key.thread_id)
                    THEN ensure_thread_context(c.cwd,
                           IncomingMessage(c.text, c.key.conversation_id,
                                           c.key.thread_id, c.timestamp))
                    ELSE Ok(claude_md)
     IN  IF context.ok
         THEN claude_md' = context.val /\ pc' = "prov_insert" /\ UNCHANGED cur
         ELSE incoming_error /\ UNCHANGED claude_md
  /\ UNCHANGED <<config, base_cwd, aux, settings_json, coord_maps, now, nmsgs, nconvs,
                 tmux, hook_files, tailer_pos, outbox, prompt_seen>>

\* Last, the SessionEntry is made and inserted, the function returns and
\* handle_incoming enters enqueue_send.
InsertEntry ==
  /\ pc = "prov_insert"
  /\ LET c == Unwrap(cur)
         entry == SessionEntry(c.session_name)
     IN  /\ sessions_by_key' = Insert(sessions_by_key, c.key, entry)
         /\ key_by_cwd' = Insert(key_by_cwd, c.cwd, c.key)
         /\ enqueue_send(entry, c.text)
  /\ UNCHANGED <<config, base_cwd, aux, settings_json, main_by_conversation,
                 hook_paths_by_cwd, now, nmsgs, nconvs, tmux, hook_files, tailer_pos,
                 claude_md, outbox, prompt_seen>>

\* wait_for_prompt returned Ok inside enqueue_send.
SendReady ==
  /\ pc = "send_wait"
  /\ prompt_ready(capture_pane(Unwrap(cur).session_name))
  /\ prompt_seen' = prompt_seen \cup {Unwrap(cur).session_name}
  /\ pc' = "sending"
  /\ UNCHANGED <<config, base_cwd, aux, settings_json, coord_maps, cur, now, nmsgs, nconvs, tmux, hook_files,
                 tailer_pos, claude_md, outbox>>

\* enqueue_send if the text were sent although wait_for_prompt bailed out.
PromptTimeoutSends ==
  /\ pc \in {"prov_wait", "send_wait"}
  /\ ~prompt_ready(capture_pane(Unwrap(cur).session_name))
  /\ incoming_error
  /\ tmux' = tmux_send(tmux, Unwrap(cur).session_name, Unwrap(cur).text)
  /\ UNCHANGED <<config, base_cwd, aux, settings_json, coord_maps, now, nmsgs, nconvs,
                 hook_files, tailer_pos, claude_md, outbox, prompt_seen>>

\* wait_for_prompt bailed out: the capture was not ready and the timeout had
\* elapsed.  handle_incoming returns the error and run() goes on.
PromptTimeout ==
  /\ pc \in {"prov_wait", "send_wait"}
  /\ ~prompt_ready(capture_pane(Unwrap(cur).session_name))
  /\ incoming_error
  /\ UNCHANGED <<config, base_cwd, aux, settings_json, coord_maps, now, nmsgs, nconvs, tmux, hook_files,
                 tailer_pos, claude_md, outbox, prompt_seen>>

\* enqueue_send: self.sessions.send(session_name, text), which tmux may fail.
Send ==
  /\ pc = "sending"
  /\ LET c == Unwrap(cur) IN
     \E tmux_ok \in BOOLEAN :
       /\ prompt_seen' = prompt_seen \ {c.session_name}
       /\ tmux' = IF tmux_ok THEN tmux_send(tmux, c.session_name, c.text) ELSE tmux
  /\ pc' = "select"
  /\ cur' = NoneV
  /\ UNCHANGED <<config, base_cwd, aux, settings_json, coord_maps, now, nmsgs, nconvs, hook_files, tailer_pos,
                 claude_md, outbox>>

\* The chat adapter drops its sender; the messages it had queued were
\* received before.
CloseInbound ==
  /\ inbound = "open"
  /\ inbound' = "closed"
  /\ UNCHANGED <<config, base_cwd, nother, call, settings_json, coord_maps, pc, cur, now,
                 nmsgs, nconvs, tmux, hook_files, tailer_pos, claude_md, outbox,
                 prompt_seen>>

\* run() if the None of the inbound channel were ignored.
on_inbound_none_continue == pc' = pc

\* run(): `None => break`, then Ok(()).
on_inbound_none == pc' = "returned"

\* run(): the inbound branch of select! on a closed channel.
RunReturns ==
  /\ at_select
  /\ inbound = "closed"
  /\ on_inbound_none
  /\ UNCHANGED <<config, base_cwd, aux, settings_json, coord_maps, cur, now, nmsgs,
                 nconvs, tmux, hook_files, tailer_pos, claude_md, outbox, prompt_seen>>

\* --------------------------------------------------------------- hook path

\* parse_hook_line's HookEvent, with the cwd field handle_hook reads.
HookEvent(event_name, session_id, cwd, transcript_path) ==
  [event_name |-> event_name, session_id |-> session_id, cwd |-> cwd,
   transcript_path |-> transcript_path]

\* A line of a hook file that is a JSON object: the fields struct HookPayload
\* reads, each present or missing, and the cwd field.
HookPayload(hook_event_name, session_id, cwd, transcript_path, agent_transcript_path) ==
  [form |-> "json", hook_event_name |-> hook_event_name, session_id |-> session_id,
   cwd |-> cwd, transcript_path |-> transcript_path,
   agent_transcript_path |-> agent_transcript_path]

\* A line that is not JSON, and a line of white space.
NotJsonLine == [HookPayload(NoneV, NoneV, OtherDir(TRUE), NoneV, NoneV) EXCEPT !.form = "not json"]
BlankHookLine == [HookPayload(NoneV, NoneV, OtherDir(TRUE), NoneV, NoneV) EXCEPT !.form = "blank"]

\* The line the hook command of an assistant appends for an event: the
\* payload the assistant wrote to its standard input.
payload_line(event) ==
  HookPayload(Some(event.event_name), Some(event.session_id), event.cwd,
              Some(event.transcript_path), NoneV)

\* parse_hook_line if a payload without transcript path were let through
\* with a path that does not exist.
parse_hook_line_lenient(line) ==
  IF line.form /= "json" \/ ~IsSome(line.hook_event_name) \/ ~IsSome(line.session_id)
  THEN Err
  ELSE LET transcript_path == IF IsSome(line.transcript_path) THEN line.transcript_path
                              ELSE line.agent_transcript_path
       IN  Ok(HookEvent(Unwrap(line.hook_event_name), Unwrap(line.session_id), line.cwd,
                        IF IsSome(transcript_path) THEN Unwrap(transcript_path)
                        ELSE MissingPath))

\* hooks::parse_hook_line: Result<HookEvent>
parse_hook_line(line) ==
  IF line.form /= "json" \/ ~IsSome(line.hook_event_name) \/ ~IsSome(line.session_id)
  THEN Err
  ELSE LET transcript_path == IF IsSome(line.transcript_path) THEN line.transcript_path
                              ELSE line.agent_transcript_path
       IN  IF ~IsSome(transcript_path) THEN Err
           ELSE Ok(HookEvent(Unwrap(line.hook_event_name), Unwrap(line.session_id),
                             line.cwd, Unwrap(transcript_path)))

\* struct OutgoingMessage, with the turn it carries, the session whose hook
\* produced it and whether SlackAdapter::send returned Ok.
OutgoingMessage(text, key, uuid, session_id, ok) ==
  [text |-> text, conversation_id |-> key.conversation_id, thread_id |-> key.thread_id,
   turn |-> uuid, hook_session |-> session_id, ok |-> ok]

\* The entry if last_sent_message_uuid were set whatever the send returned.
entry_after_send_always(entry, uuid, ok) ==
  [entry EXCEPT !.last_sent_message_uuid = Some(uuid)]

\* The entry if last_sent_message_uuid were never set.
entry_after_send_never(entry, uuid, ok) == entry

\* handle_hook: `self.slack.send(&outgoing).await?; entry.last_sent_message_uuid
\* = Some(latest.0)`: the entry after the send returned.
entry_after_send(entry, uuid, ok) ==
  IF ok THEN [entry EXCEPT !.last_sent_message_uuid = Some(uuid)] ELSE entry

\* handle_hook: the duplicate test on the latest turn
is_duplicate(entry, latest) ==
  entry.last_sent_message_uuid = Some(latest.uuid)

\* handle_hook if every event name passed its first test.
is_stop_any(event_name) == TRUE

\* handle_hook: `hook.event_name != "Stop"` returns at once.
is_stop(event_name) == event_name = "Stop"

\* handle_hook if a cwd without key fell back to some key that has a session.
key_by_cwd_get_any(cwd) ==
  IF cwd \in DOMAIN key_by_cwd THEN Some(key_by_cwd[cwd])
  ELSE IF DOMAIN sessions_by_key = {} THEN NoneV
  ELSE Some(CHOOSE k \in DOMAIN sessions_by_key : TRUE)

\* handle_hook: self.key_by_cwd.get(&cwd)
key_by_cwd_get(cwd) ==
  IF cwd \in DOMAIN key_by_cwd THEN Some(key_by_cwd[cwd]) ELSE NoneV

\* Coordinator::handle_hook on the event at the head of the hook channel
handle_hook(hook) ==
  IF ~is_stop(hook.event_name)
  THEN UNCHANGED <<sessions_by_key, outbox>>
  ELSE LET cwd == normalize_path(hook.cwd) IN
       IF ~IsSome(key_by_cwd_get(cwd))
       THEN UNCHANGED <<sessions_by_key, outbox>>
       ELSE LET key == Unwrap(key_by_cwd_get(cwd)) IN
            IF key \notin DOMAIN sessions_by_key
            THEN UNCHANGED <<sessions_by_key, outbox>>
            ELSE LET entry == [sessions_by_key[key] EXCEPT
                                 !.last_transcript_path = Some(hook.transcript_path)]
                     read == latest_assistant_text_uuid_at(hook.transcript_path)
                     latest == read.val
                 IN  IF ~read.ok \/ ~IsSome(latest) \/ is_duplicate(entry, Unwrap(latest))
                     THEN /\ sessions_by_key' = [sessions_by_key EXCEPT ![key] = entry]
                          /\ UNCHANGED outbox
                     ELSE \E ok \in BOOLEAN :
                            /\ outbox' = [outbox EXCEPT ![key] = Append(@,
                                 OutgoingMessage(Unwrap(latest).text, key,
                                                 Unwrap(latest).uuid, hook.session_id, ok))]
                            /\ sessions_by_key' =
                                 [sessions_by_key EXCEPT ![key] =
                                    entry_after_send(entry, Unwrap(latest).uuid, ok)]

\* A line the tailer of workspace cwd has not read yet.  Every tailer feeds the
\* one unbounded hook channel through its own forwarding task, so the events
\* of one tailer reach run() in file order and those of different tailers in
\* any order: the next event run() receives is the next unread line of some
\* tailer.
TailerHasLine(cwd) ==
  /\ cwd \in DOMAIN tailer_pos
  /\ tailer_pos[cwd] < Len(hook_files[hook_paths_by_cwd[cwd]])

\* spawn_hook_receiver: the line wait_for_line returns next, and the HookEvent
\* parse_hook_line makes of it.
NextLine(cwd) == hook_files[hook_paths_by_cwd[cwd]][tailer_pos[cwd] + 1]
TailerLine(cwd) == parse_hook_line(NextLine(cwd)).val

\* run(): the hook branch of select!, on the event the tailer of cwd read.
HandleHook(cwd) ==
  /\ at_select
  /\ TailerHasLine(cwd)
  /\ NextLine(cwd).form /= "blank"
  /\ parse_hook_line(NextLine(cwd)).ok
  /\ handle_hook(TailerLine(cwd))
  /\ tailer_pos' = [tailer_pos EXCEPT ![cwd] = @ + 1]
  /\ UNCHANGED <<config, base_cwd, aux, settings_json, key_by_cwd, main_by_conversation,
                 hook_paths_by_cwd, pc, cur, now, nmsgs, nconvs, tmux, hook_files,
                 claude_md, prompt_seen>>

\* The tailer thread of workspace cwd runs HookFollower::open only now:
\* thread::spawn returned before the closure ran, and records were appended
\* in between.  The seek to the end passes over them.  A tailer at position 0
\* has read nothing, which is all the state tells of a thread that has not
\* opened its file yet.
TailerOpensLate(cwd) ==
  /\ cwd \in DOMAIN tailer_pos
  /\ tailer_pos[cwd] = 0
  /\ Len(hook_files[hook_paths_by_cwd[cwd]]) > 0
  /\ tailer_pos' = [tailer_pos EXCEPT ![cwd] = Len(hook_files[hook_paths_by_cwd[cwd]])]
  /\ UNCHANGED <<config, base_cwd, aux, settings_json, coord_maps, pc, cur, now, nmsgs,
                 nconvs, tmux, hook_files, claude_md, outbox, prompt_seen>>

\* spawn_hook_receiver's loop on a line that is blank or that parse_hook_line
\* rejects: the error is logged, nothing is sent on the channel, and the loop
\* goes on with the next line.  This is a step of the tailer thread, whatever
\* run() is doing.
TailerSkips(cwd) ==
  /\ TailerHasLine(cwd)
  /\ NextLine(cwd).form = "blank" \/ ~parse_hook_line(NextLine(cwd)).ok
  /\ tailer_pos' = [tailer_pos EXCEPT ![cwd] = @ + 1]
  /\ UNCHANGED <<config, base_cwd, aux, settings_json, coord_maps, pc, cur, now, nmsgs,
                 nconvs, tmux, hook_files, claude_md, outbox, prompt_seen>>

\* -------------------------------------------------------------- assistant

\* The assistant of a new session shows its input prompt.
AssistantStarted(s) ==
  /\ s \in DOMAIN tmux
  /\ tmux[s].status = "starting"
  /\ tmux' = [tmux EXCEPT ![s].status = IF tmux[s].inbox = <<>> THEN "idle" ELSE "received"]
  /\ UNCHANGED <<config, base_cwd, aux, settings_json, coord_maps, pc, cur, now, nmsgs, nconvs, hook_files,
                 tailer_pos, claude_md, outbox, prompt_seen>>

\* The assistant takes the oldest input it accepted, logs it as a user line
\* and starts generating.
AssistantGenerates(s) ==
  /\ s \in DOMAIN tmux
  /\ tmux[s].status = "received"
  /\ tmux' = [tmux EXCEPT ![s].status = "generating",
                          ![s].transcript = Append(@, UserRecord(Head(tmux[s].inbox), now))]
  /\ UNCHANGED <<config, base_cwd, aux, settings_json, coord_maps, pc, cur, now, nmsgs, nconvs, hook_files,
                 tailer_pos, claude_md, outbox, prompt_seen>>

\* The assistant completes the turn: the assistant line (with text, or with
\* tool output only) is appended to the transcript, then the Stop hook command
\* appends its record to the hook file of the session's workspace.
AssistantStops(s) ==
  /\ s \in DOMAIN tmux
  /\ tmux[s].status = "generating"
  /\ \E with_text \in BOOLEAN :
       LET n == Cardinality({i \in 1..Len(tmux[s].transcript) :
                               tmux[s].transcript[i].type = "assistant"}) + 1
           text == IF with_text THEN ReplyText(Head(tmux[s].inbox).n) ELSE EmptyText
           line == AssistantRecord([session |-> s, n |-> n], text, now)
       IN  tmux' = [tmux EXCEPT ![s].transcript = Append(@, line),
                                ![s].inbox = Tail(@),
                                ![s].status = IF Len(tmux[s].inbox) > 1
                                              THEN "received" ELSE "idle"]
  /\ hook_files' = [hook_files EXCEPT ![hook_path_for_cwd(tmux[s].cwd)] =
                      Append(@, payload_line(HookEvent("Stop", s, tmux[s].cwd, s)))]
  /\ UNCHANGED <<config, base_cwd, aux, settings_json, coord_maps, pc, cur, now, nmsgs, nconvs, tailer_pos,
                 claude_md, outbox, prompt_seen>>

\* A hook command writes a record that is not the Stop of a session of this
\* run: another event of a session that is generating, or an event of an
\* assistant started outside this run, in a workspace or elsewhere.  Records
\* written to a file before it has a tailer are never read and are left out.
OtherHook ==
  /\ nother < MaxOther
  /\ nother' = nother + 1
  /\ \E hook \in
         {HookEvent("Notification", s, tmux[s].cwd, s) :
            s \in {x \in DOMAIN tmux : tmux[x].status = "generating"}}
         \cup {HookEvent("Notification", OtherSession, cwd, OtherSession) :
                 cwd \in Workspaces \cup {OtherDir(TRUE)}}
         \cup {HookEvent("Stop", OtherSession, cwd, transcript_path) :
                 cwd \in Workspaces \cup {OtherDir(TRUE)},
                 transcript_path \in {OtherSession, MissingPath}} :
       LET path == hook_path_for_cwd(normalize_path(hook.cwd)) IN
       /\ \E w \in DOMAIN hook_paths_by_cwd : hook_paths_by_cwd[w] = path
       /\ hook_files' = [hook_files EXCEPT ![path] = Append(@, payload_line(hook))]
  /\ UNCHANGED <<config, base_cwd, inbound, call, settings_json, coord_maps, pc, cur,
                 now, nmsgs, nconvs, tmux, tailer_pos, claude_md, outbox, prompt_seen>>

\* The lines a hook file can get about a session besides the Stop line of a
\* turn: a line that is not JSON, a blank line, and payloads of a Stop event
\* with any of the fields parse_hook_line needs present or missing.
OddLines(s) ==
  {NotJsonLine, BlankHookLine}
    \cup {HookPayload(hook_event_name, session_id, tmux[s].cwd, transcript_path,
                      agent_transcript_path) :
            hook_event_name \in {NoneV, Some("Stop")},
            session_id \in {NoneV, Some(s)},
            transcript_path \in {NoneV, Some(s)},
            agent_transcript_path \in {NoneV, Some(s)}}

\* A hook command whose standard input held one of these lines appends it to
\* the hook file of a session's workspace.
OddHook ==
  /\ nother < MaxOther
  /\ nother' = nother + 1
  /\ \E s \in DOMAIN tmux :
       \E line \in OddLines(s) :
         LET path == hook_path_for_cwd(normalize_path(tmux[s].cwd)) IN
         /\ \E w \in DOMAIN hook_paths_by_cwd : hook_paths_by_cwd[w] = path
         /\ hook_files' = [hook_files EXCEPT ![path] = Append(@, line)]
  /\ UNCHANGED <<config, base_cwd, inbound, call, settings_json, coord_maps, pc, cur,
                 now, nmsgs, nconvs, tmux, tailer_pos, claude_md, outbox, prompt_seen>>

\* ------------------------------------------------------------------- spec

SessionNames == 0..(MaxMsgs + 1)

\* The steps after provisioning, the hook branch of run(), and the assistants.
Steps ==
  \/ SendReady
  \/ PromptTimeout
  \/ Send
  \/ \E cwd \in Workspaces : HandleHook(cwd)
  \/ \E s \in SessionNames : AssistantStarted(s)
  \/ \E s \in SessionNames : AssistantGenerates(s)
  \/ \E s \in SessionNames : AssistantStops(s)

\* Everything but the inbound branch of run().
Others == ProvisionReady \/ Steps

Next == HandleIncoming \/ Others
Spec == Init /\ [][Next]_vars

NextThreads == HandleIncomingThreads \/ Others
SpecThreads == Init /\ [][NextThreads]_vars

NextMain == HandleIncomingMain \/ Others
SpecMain == Init /\ [][NextMain]_vars

\* ------------------------------------------------ functions under study

\* Sequences of at most n elements of S.
SeqUpTo(S, n) == UNION {[1..k -> S] : k \in 0..n}

\* The variables a function call leaves alone: all but `call`.
coordinator_state ==
  <<config, base_cwd, coord_maps, pc, cur, now, nmsgs, nconvs, tmux, hook_files,
    tailer_pos, claude_md, outbox, prompt_seen, inbound, nother, settings_json>>

\* The lines a transcript can hold: any type, a text or none, and a timestamp
\* that is missing, has the suffix Z, or has a UTC offset instead; blank
\* lines and lines that are not JSON.
TranscriptRecords ==
  [type : {"user", "assistant", "system"},
   uuid : {NoneV},
   text : {MsgText(0), EmptyText},
   timestamp : {NoneV, Some(IsoTimestamp("+00:00", 2))}
                 \cup {Some(IsoTimestamp("Z", t)) : t \in 0..2}]
    \cup {BlankLine, MalformedLine}

\* read_history is about to be called on a transcript, without a cutoff or
\* with a cutoff string that names the time 1.
InitHistory ==
  /\ InitCoordinator
  /\ WorkspaceFiles([w \in Workspaces |-> NoneV], [w \in Workspaces |-> NoneV])
  /\ \E lines \in SeqUpTo(TranscriptRecords, MaxLines),
        cutoff \in {NoneV} \cup {Some(SlackTimestamp(form, 1)) :
                                   form \in {"secs.frac", "secs"}} :
       call = [lines |-> lines, cutoff |-> cutoff, ret |-> NoneV]

\* The call read_history(path, cutoff_ts) returns.
CallReadHistory ==
  /\ ~IsSome(call.ret)
  /\ call' = [call EXCEPT !.ret = Some(read_history(call.lines, call.cutoff))]
  /\ UNCHANGED coordinator_state

SpecHistory == InitHistory /\ [][CallReadHistory]_vars

\* The lines of a transcript as latest_assistant_text_uuid tells them apart:
\* user and assistant records with or without uuid, with a text, a blank text
\* or tool calls only; blank lines and lines that are not JSON.
TurnRecords ==
  [type : {"user", "assistant"},
   uuid : {NoneV} \cup {Some([session |-> 0, n |-> n]) : n \in 1..2},
   text : {ReplyText(0), EmptyText, NoTextParts},
   timestamp : {NoneV}]
    \cup {BlankLine, MalformedLine}

\* latest_assistant_text_uuid is about to be called on a transcript.
InitLatest ==
  /\ InitCoordinator
  /\ WorkspaceFiles([w \in Workspaces |-> NoneV], [w \in Workspaces |-> NoneV])
  /\ \E lines \in SeqUpTo(TurnRecords, MaxLines) :
       call = [lines |-> lines, ret |-> NoneV]

\* The call latest_assistant_text_uuid(path) returns.
CallLatest ==
  /\ ~IsSome(call.ret)
  /\ call' = [call EXCEPT !.ret = Some(latest_assistant_text_uuid(call.lines))]
  /\ UNCHANGED coordinator_state

SpecLatest == InitLatest /\ [][CallLatest]_vars

\* Pane captures: two lines of any kind, with lines that begin with no prompt
\* glyph around them; the lines between the two put the upper one inside or
\* outside the last 20.
Filler(n) == [i \in 1..n |-> PaneLine("none", FALSE)]
PaneLines == [glyph : {"prompt", ">", "none"}, esc : BOOLEAN]
Panes ==
  {Filler(a) \o <<l1>> \o Filler(b) \o <<l2>> \o Filler(c) :
     a \in 0..1, b \in {0, 17, 18, 19}, c \in 0..1, l1 \in PaneLines, l2 \in PaneLines}

\* wait_for_prompt is entered and has made its first capture.
InitPrompt ==
  /\ InitCoordinator
  /\ WorkspaceFiles([w \in Workspaces |-> NoneV], [w \in Workspaces |-> NoneV])
  /\ \E pane \in Panes : call = [pane |-> pane, polls |-> 0, ret |-> NoneV]

\* wait_for_prompt: `if prompt_ready(&pane) { return Ok(()) }`
PollReady ==
  /\ ~IsSome(call.ret)
  /\ prompt_ready(call.pane)
  /\ call' = [call EXCEPT !.ret = Some(Ok(call.pane))]
  /\ UNCHANGED coordinator_state

\* wait_for_prompt: the capture is not ready and the timeout has not elapsed:
\* sleep(poll), then the next capture, which shows the same or an idle pane.
PollAgain ==
  /\ ~IsSome(call.ret)
  /\ ~prompt_ready(call.pane)
  /\ call.polls = 0
  /\ \E pane \in {call.pane, AssistantPane("idle")} :
       call' = [call EXCEPT !.pane = pane, !.polls = 1]
  /\ UNCHANGED coordinator_state

\* wait_for_prompt: the capture is not ready and the timeout has elapsed.
PollTimeout ==
  /\ ~IsSome(call.ret)
  /\ ~prompt_ready(call.pane)
  /\ call' = [call EXCEPT !.ret = Some(Err)]
  /\ UNCHANGED coordinator_state

NextPrompt == PollReady \/ PollAgain \/ PollTimeout
SpecPrompt == InitPrompt /\ [][NextPrompt]_vars

\* Characters of a thread id: letters of both cases, digits, punctuation, a
\* space, and a letter outside ASCII (one char of the Rust string).
ThreadIdChars == {"a", "Z", "7", "0", "_", ".", "/", " ", "é"}

\* sanitize_thread_id is about to be called on a thread id.
InitSanitize ==
  /\ InitCoordinator
  /\ WorkspaceFiles([w \in Workspaces |-> NoneV], [w \in Workspaces |-> NoneV])
  /\ \E thread_id \in SeqUpTo(ThreadIdChars, MaxChars) :
       call = [thread_id |-> thread_id, ret |-> NoneV]

\* The call sanitize_thread_id(thread_id) returns.
CallSanitize ==
  /\ ~IsSome(call.ret)
  /\ call' = [call EXCEPT !.ret = Some(Ok(sanitize_thread_id(call.thread_id)))]
  /\ UNCHANGED coordinator_state

SpecSanitize == InitSanitize /\ [][CallSanitize]_vars

\* ---------------------------------------------------- timestamps in numbers

\* Rust's `/` on integers with a positive divisor: the quotient is truncated
\* toward zero.
tdiv(a, b) == IF a >= 0 THEN a \div b ELSE 0 - ((0 - a) \div b)

\* days_from_civil with the leap rule of the Julian calendar (no century
\* correction).
days_from_civil_julian(year, month, day) ==
  LET y == year - (IF month <= 2 THEN 1 ELSE 0)
      m == IF month > 2 THEN month - 3 ELSE month + 9
      era == tdiv(IF y >= 0 THEN y ELSE y - 399, 400)
      yoe == y - era * 400
      doy == tdiv(153 * m + 2, 5) + day - 1
      doe == yoe * 365 + tdiv(yoe, 4) + doy
  IN  era * 146097 + doe - 719468

\* fn days_from_civil(year: i32, month: i32, day: i32) -> i64; for the years
\* used here every intermediate value is far inside i32.
days_from_civil(year, month, day) ==
  LET y == year - (IF month <= 2 THEN 1 ELSE 0)
      m == IF month > 2 THEN month - 3 ELSE month + 9
      era == tdiv(IF y >= 0 THEN y ELSE y - 399, 400)
      yoe == y - era * 400
      doy == tdiv(153 * m + 2, 5) + day - 1
      doe == yoe * 365 + tdiv(yoe, 4) - tdiv(yoe, 100) + doy
  IN  era * 146097 + doe - 719468

\* The bytes b'0'..=b'9' and the number each stands for.
DigitChars == <<"0", "1", "2", "3", "4", "5", "6", "7", "8", "9">>
IsDigit(b) == \E i \in 1..Len(DigitChars) : DigitChars[i] = b
DigitValue(b) == (CHOOSE i \in 1..Len(DigitChars) : DigitChars[i] = b) - 1

\* 10_i128.pow(n)
RECURSIVE Pow10(_)
Pow10(n) == IF n = 0 THEN 1 ELSE 10 * Pow10(n - 1)

\* fn parse_fractional_nanos: the loop over the first nine bytes
RECURSIVE FractionLoop(_, _)
FractionLoop(digits, value) ==
  IF digits = <<>> THEN Some(value)
  ELSE IF ~IsDigit(Head(digits)) THEN NoneV
  ELSE FractionLoop(Tail(digits), value * 10 + DigitValue(Head(digits)))

\* fn parse_fractional_nanos(frac: &str) -> Option<i128>
parse_fractional_nanos(frac) ==
  IF frac = <<>> THEN Some(0)
  ELSE LET digits == IF Len(frac) > 9 THEN SubSeq(frac, 1, 9) ELSE frac
           value == FractionLoop(digits, 0)
       IN  IF ~IsSome(value) THEN NoneV
           ELSE Some(Unwrap(value) * Pow10(9 - Len(digits)))

\* An i128 count of nanoseconds, seconds * 1_000_000_000 + nanos, written in
\* whole days, seconds of the day and nanoseconds of the second (the number
\* itself is wider than 32 bits).
Nanos(seconds_days, seconds_rest, nanos) ==
  [days |-> seconds_days, secs |-> seconds_rest, nanos |-> nanos]

\* a > b for two such counts
NanosAfter(a, b) ==
  \/ a.days > b.days
  \/ a.days = b.days /\ a.secs > b.secs
  \/ a.days = b.days /\ a.secs = b.secs /\ a.nanos > b.nanos

\* A transcript timestamp as parse_iso_ts_to_nanos splits it: the suffix Z
\* present or not, the numbers of date and time, and the digits after '.'.
IsoString(z, year, month, day, hour, minute, second, frac) ==
  [z |-> z, year |-> year, month |-> month, day |-> day, hour |-> hour,
   minute |-> minute, second |-> second, frac |-> frac]

\* fn parse_iso_ts_to_nanos on such a string
iso_ts_to_nanos(ts) ==
  IF ~ts.z THEN NoneV
  ELSE LET nanos == parse_fractional_nanos(ts.frac)
           days == days_from_civil(ts.year, ts.month, ts.day)
       IN  IF ~IsSome(nanos) THEN NoneV
           ELSE Some(Nanos(days, ts.hour * 3600 + ts.minute * 60 + ts.second,
                           Unwrap(nanos)))

\* A chat timestamp as parse_slack_ts_to_nanos splits it at the first '.'.
SlackString(secs, frac) == [secs |-> secs, frac |-> frac]

\* fn parse_slack_ts_to_nanos on such a string (secs >= 0)
slack_ts_to_nanos(ts) ==
  LET nanos == parse_fractional_nanos(ts.frac) IN
  IF ~IsSome(nanos) THEN NoneV
  ELSE Some(Nanos(ts.secs \div 86400, ts.secs % 86400, Unwrap(nanos)))

\* The calendar: leap years and the days of each month.
IsLeap(year) == year % 4 = 0 /\ (year % 100 /= 0 \/ year % 400 = 0)
DaysInMonth(year, month) ==
  IF month = 2 THEN (IF IsLeap(year) THEN 29 ELSE 28)
  ELSE IF month \in {4, 6, 9, 11} THEN 30 ELSE 31

\* The years the timestamps are taken from: before and after the epoch, leap
\* years, and centuries that are and are not leap years.
Years == {1900, 1969, 1970, 2000, 2024, 2100}
Dates ==
  {d \in [year : Years, month : 1..12, day : 1..31] : d.day <= DaysInMonth(d.year, d.month)}
Times == {[hour |-> 0, minute |-> 0, second |-> 0],
          [hour |-> 0, minute |-> 10, second |-> 0],
          [hour |-> 23, minute |-> 59, second |-> 59]}
Fractions == {<<>>, <<"5">>, <<"0", "0", "0", "0", "0", "0">>,
              <<"1", "2", "3", "4", "5", "6", "7", "8", "9", "9">>, <<"0", "x">>}

\* The timestamps of transcript records: every date at midnight, and two
\* dates with every time and fraction, with and without Z.
IsoStrings ==
  {IsoString(TRUE, d.year, d.month, d.day, 0, 0, 0, <<>>) : d \in Dates}
    \cup {IsoString(z, d.year, d.month, d.day, t.hour, t.minute, t.second, frac) :
            z \in BOOLEAN,
            d \in {[year |-> 1970, month |-> 1, day |-> 1],
                   [year |-> 2024, month |-> 1, day |-> 1]},
            t \in Times, frac \in Fractions}

\* The cutoffs: 1704067205.000000 and 1704067205.5
SlackStrings ==
  {SlackString(1704067205, <<"0", "0", "0", "0", "0", "0">>),
   SlackString(1704067205, <<"5">>)}

\* parse_transcript_line is about to compare a record's timestamp with the
\* cutoff.
InitCompare ==
  /\ InitCoordinator
  /\ WorkspaceFiles([w \in Workspaces |-> NoneV], [w \in Workspaces |-> NoneV])
  /\ \E ts \in IsoStrings, cutoff \in SlackStrings :
       call = [ts |-> ts, cutoff |-> cutoff, ret |-> NoneV]

\* parse_transcript_line: `if let Some(ts_nanos) = parse_iso_ts_to_nanos(ts)
\* { if ts_nanos > cutoff { return Ok(None); } }`
CallCompare ==
  /\ ~IsSome(call.ret)
  /\ LET ts_nanos == iso_ts_to_nanos(call.ts)
         cutoff == slack_ts_to_nanos(call.cutoff)
     IN  call' = [call EXCEPT !.ret =
                    Some([ts_nanos |-> ts_nanos,
                          cutoff |-> cutoff,
                          dropped |-> /\ IsSome(cutoff)
                                      /\ IsSome(ts_nanos)
                                      /\ NanosAfter(Unwrap(ts_nanos), Unwrap(cutoff))])]
  /\ UNCHANGED coordinator_state

SpecCompare == InitCompare /\ [][CallCompare]_vars

\* The bytes a hook payload is made of, and the hook commands that run at
\* the same time on one hook file.
Bytes == {"a", "b", "\n"}
HookProcs == {1, 2}

\* append_stdin_to_file if no newline were pushed.
with_newline_never(input) == input

\* append_stdin_to_file: `if !input.ends_with('\n') { input.push('\n'); }`
with_newline(input) ==
  IF input /= <<>> /\ input[Len(input)] = "\n" THEN input ELSE Append(input, "\n")

\* BufRead::read_line at offset pos of the file: the bytes up to and with the
\* next newline, or up to the end of the file when there is none.
read_line(file, pos) ==
  LET rest == SubSeq(file, pos + 1, Len(file))
      newlines == {i \in 1..Len(rest) : rest[i] = "\n"}
  IN  IF newlines = {} THEN rest
      ELSE SubSeq(rest, 1, CHOOSE i \in newlines : \A j \in newlines : i <= j)

\* str::trim_end on what read_line gave
trim_end(buf) ==
  IF buf /= <<>> /\ buf[Len(buf)] = "\n" THEN SubSeq(buf, 1, Len(buf) - 1) ELSE buf

\* A hook file that is empty or holds one line, a follower opened at its end,
\* and the hook commands started, each with its standard input.
InitAppend ==
  /\ InitCoordinator
  /\ WorkspaceFiles([w \in Workspaces |-> NoneV], [w \in Workspaces |-> NoneV])
  /\ \E before \in {<<>>, <<"a", "\n">>},
        stdin \in [HookProcs -> SeqUpTo(Bytes, MaxStdin)] :
       call = [before |-> before,
               file |-> before,
               procs |-> [p \in HookProcs |->
                            [stdin |-> stdin[p], input |-> NoneV, pc |-> "start"]],
               order |-> <<>>,
               follower |-> [pos |-> Len(before), lines |-> <<>>]]

\* append_stdin_to_file: standard input is read to its end and the newline
\* is pushed if it is missing.
ReadStdin(p) ==
  /\ call.procs[p].pc = "start"
  /\ call' = [call EXCEPT !.procs[p].input = Some(with_newline(call.procs[p].stdin)),
                          !.procs[p].pc = "read"]
  /\ UNCHANGED coordinator_state

\* append_stdin_to_file: the file is opened with O_APPEND and write_all hands
\* the whole input to one write, which the system places at the end of the
\* file as it is at that moment.
WriteAll(p) ==
  /\ call.procs[p].pc = "read"
  /\ call' = [call EXCEPT !.file = @ \o Unwrap(call.procs[p].input),
                          !.order = Append(@, p),
                          !.procs[p].pc = "done"]
  /\ UNCHANGED coordinator_state

\* HookFollower::wait_for_line: read_line read something.
WaitForLine ==
  /\ call.follower.pos < Len(call.file)
  /\ LET buf == read_line(call.file, call.follower.pos) IN
     call' = [call EXCEPT !.follower.pos = @ + Len(buf),
                          !.follower.lines = Append(@, trim_end(buf))]
  /\ UNCHANGED coordinator_state

NextAppend == WaitForLine \/ \E p \in HookProcs : ReadStdin(p) \/ WriteAll(p)
SpecAppend == InitAppend /\ [][NextAppend]_vars

\* The pieces of a hook command: the two placeholders, the path of the
\* executable, and any other text.
debug_path == "$CLAUDE_PROJECT_DIR/target/debug/ccterm"
release_path == "$CLAUDE_PROJECT_DIR/target/release/ccterm"
exe_path == "exe_path"
Commands == SeqUpTo({debug_path, release_path, "other"}, MaxCmd)

\* str::contains and str::replace for one of the placeholders
contains(command, pat) == \E i \in 1..Len(command) : command[i] = pat
replace(command, from, to) ==
  [i \in 1..Len(command) |-> IF command[i] = from THEN to ELSE command[i]]

\* fn replace_ccterm_command
replace_ccterm_command(command, exe) ==
  IF contains(command, debug_path) THEN replace(command, debug_path, exe)
  ELSE IF contains(command, release_path) THEN replace(command, release_path, exe)
  ELSE command

\* fn rewrite_hook_commands, over the hooks at hooks.*.*.hooks[*] in their
\* order: a hook has a string `command` or it has not.
rewrite_hook_commands(settings, exe) ==
  [i \in 1..Len(settings) |->
     IF IsSome(settings[i]) THEN Some(replace_ccterm_command(Unwrap(settings[i]), exe))
     ELSE settings[i]]

\* A settings template is about to be rewritten.
InitRewrite ==
  /\ InitCoordinator
  /\ WorkspaceFiles([w \in Workspaces |-> NoneV], [w \in Workspaces |-> NoneV])
  /\ \E settings \in SeqUpTo({NoneV} \cup {Some(c) : c \in Commands}, MaxCmd) :
       call = [settings |-> settings, once |-> NoneV, twice |-> NoneV]

\* rewrite_hook_commands(&mut settings, exe_path) on the template.
RewriteOnce ==
  /\ ~IsSome(call.once)
  /\ call' = [call EXCEPT !.once = Some(rewrite_hook_commands(call.settings, exe_path))]
  /\ UNCHANGED coordinator_state

\* rewrite_hook_commands(&mut settings, exe_path) on its own result.
RewriteAgain ==
  /\ IsSome(call.once)
  /\ ~IsSome(call.twice)
  /\ call' = [call EXCEPT !.twice = Some(rewrite_hook_commands(Unwrap(call.once), exe_path))]
  /\ UNCHANGED coordinator_state

NextRewrite == RewriteOnce \/ RewriteAgain
SpecRewrite == InitRewrite /\ [][NextRewrite]_vars

\* One conversation, started with thread workspaces left over or not.
NextSeed == HandleIncomingConv \/ Others
SpecSeed == InitSeed /\ [][NextSeed]_vars

\* One conversation, with the provisioning of a session taken step by step.
NextContext == HandleIncomingConv \/ Steps \/ PromptShown \/ WriteContext \/ InsertEntry
SpecContext == Init /\ [][NextContext]_vars

\* One main channel, with tailer threads that may open their file late.
NextTailer == HandleIncomingOne \/ Others \/ \E cwd \in Workspaces : TailerOpensLate(cwd)
SpecTailer == Init /\ [][NextTailer]_vars

\* One main channel, with hook records of other events and other assistants.
NextHooks == HandleIncomingOne \/ Others \/ OtherHook
SpecHooks == Init /\ [][NextHooks]_vars

\* One main channel, with hook file lines that are blank or do not parse.
HandleIncomingFew == Inbound(MaxHookMsgs, 1, {})
NextHookLines ==
  HandleIncomingFew \/ Others \/ OddHook \/ \E cwd \in Workspaces : TailerSkips(cwd)
SpecHookLines == Init /\ [][NextHookLines]_vars

\* One conversation whose inbound channel may be closed at any moment.  Each
\* wait_for_prompt ends (ready or timed out), each tmux send returns, and
\* select! takes the branch of the closed channel when it stays ready.
NextClose == HandleIncomingConv \/ Others \/ CloseInbound \/ RunReturns
RunFairness ==
  /\ WF_vars(RunReturns)
  /\ WF_vars(ProvisionReady \/ SendReady \/ PromptTimeout)
  /\ WF_vars(Send)
SpecClose == Init /\ [][NextClose]_vars /\ RunFairness

\* ----------------------------------------------------------------- claims

\* The session serving key K and the workspace it was spawned in.
SessionOf(K) == sessions_by_key[K].session_name
WorkspaceOf(K) == tmux[SessionOf(K)].cwd

\* The outbound messages of key K the chat adapter accepted.
IsOk(o) == o.ok
Delivered(K) == SelectSeq(outbox[K], IsOk)

\* The assistant lines with text in the transcript of session s.
TextTurns(s) ==
  {tmux[s].transcript[i] : i \in {j \in 1..Len(tmux[s].transcript) :
     /\ tmux[s].transcript[j].type = "assistant"
     /\ ~TrimIsEmpty(tmux[s].transcript[j].text)}}

\* C1: every key with an entry in sessions_by_key has its workspace as a key
\* of key_by_cwd, and key_by_cwd maps the workspace back to that key.
C1_BidirectionalConsistency ==
  \A K \in DOMAIN sessions_by_key :
    /\ WorkspaceOf(K) \in DOMAIN key_by_cwd
    /\ key_by_cwd[WorkspaceOf(K)] = K

\* C2: an outbound message produced by the Stop hook of the session that
\* serves key K is addressed to K's conversation_id and thread_id.
C2_ReplyRouting ==
  \A K \in DOMAIN sessions_by_key, K2 \in Keys :
    \A i \in 1..Len(outbox[K2]) :
      outbox[K2][i].hook_session = SessionOf(K)
        => /\ outbox[K2][i].conversation_id = K.conversation_id
           /\ outbox[K2][i].thread_id = K.thread_id

\* C3: for every key and every turn id, at most one outbound message for
\* that turn was accepted by the chat adapter.
C3_AtMostOnceDelivery ==
  \A K \in Keys :
    \A i, j \in 1..Len(Delivered(K)) :
      Delivered(K)[i].turn = Delivered(K)[j].turn => i = j

\* C4: last_sent_message_uuid of a key is None while the chat adapter has
\* accepted no outbound message for the key, and otherwise is the turn id of
\* the most recent accepted one; a key without entry has none accepted.
C4_LastDeliveredTracksSuccess ==
  \A K \in Keys :
    IF K \in DOMAIN sessions_by_key
    THEN sessions_by_key[K].last_sent_message_uuid =
           IF Delivered(K) = <<>> THEN NoneV
           ELSE Some(Delivered(K)[Len(Delivered(K))].turn)
    ELSE outbox[K] = <<>>

\* A key whose first outbound message was accepted and whose next attempt,
\* for another turn, failed.
C4_Witness ==
  \E K \in DOMAIN sessions_by_key :
    /\ Len(outbox[K]) >= 2
    /\ outbox[K][1].ok
    /\ ~outbox[K][Len(outbox[K])].ok
    /\ outbox[K][Len(outbox[K])].turn /= outbox[K][1].turn
    /\ sessions_by_key[K].last_sent_message_uuid = Some(outbox[K][1].turn)

\* C5: whenever the Coordinator is about to call send on a session, a
\* wait_for_prompt on that session has returned Ok since the previous send to
\* it (or since its spawn).
C5_SendAfterPrompt ==
  pc = "sending" => Unwrap(cur).session_name \in prompt_seen

\* The Coordinator is about to send to a session it has sent to before.
C5_Witness ==
  /\ pc = "sending"
  /\ Unwrap(cur).session_name \in prompt_seen
  /\ Len(tmux[Unwrap(cur).session_name].inbox)
       + Len(tmux[Unwrap(cur).session_name].transcript) > 0

\* C6: whenever the Coordinator is about to call send on a session, the
\* assistant of the session is idle: it is not generating and has no accepted
\* message it has not answered.
C6_NoSendWhileBusy ==
  pc = "sending" => tmux[Unwrap(cur).session_name].status = "idle"

\* C7: at most one session was spawned for each ConversationKey.
C7_OneSessionPerKey ==
  \A s1, s2 \in DOMAIN tmux : tmux[s1].for_key = tmux[s2].for_key => s1 = s2

\* C8: the session of a main key runs in the base directory, the session of a
\* thread key does not, and the sessions of thread keys with different thread
\* ids run in different directories.
C8_WorkspaceAssignment ==
  \A s1, s2 \in DOMAIN tmux :
    LET k1 == tmux[s1].for_key
        k2 == tmux[s2].for_key
    IN  /\ k1.thread_id = NoneV => tmux[s1].cwd = base_cwd
        /\ k1.thread_id /= NoneV => tmux[s1].cwd /= base_cwd
        /\ (k1.thread_id /= NoneV /\ k2.thread_id /= NoneV
              /\ k1.thread_id /= k2.thread_id) => tmux[s1].cwd /= tmux[s2].cwd

\* Every hook record written so far was read by every tailer of its file and
\* handled, and the chat adapter refused no message.
HooksDrained ==
  /\ pc = "select"
  /\ \A cwd \in Workspaces : ~TailerHasLine(cwd)
  /\ \A K \in Keys : Delivered(K) = outbox[K]

\* C9: once every Stop hook written so far has been handled, and the chat
\* adapter accepted every message, the text of every completed turn of the
\* session serving a key was handed to the chat adapter for that key.  (A
\* turn not delivered by then is never delivered: the transcript only grows
\* and handle_hook reads its newest turn.)
C9_NoReplySkipped ==
  HooksDrained =>
    \A K \in DOMAIN sessions_by_key :
      \A r \in TextTurns(SessionOf(K)) :
        \E i \in 1..Len(outbox[K]) :
          /\ Some(outbox[K][i].turn) = r.uuid
          /\ outbox[K][i].text = r.text

\* The tailer of cwd hands its next line to run() in this step.
HookStep(cwd) ==
  /\ pc = "select"
  /\ TailerHasLine(cwd)
  /\ cwd \in DOMAIN tailer_pos'
  /\ tailer_pos'[cwd] = tailer_pos[cwd] + 1

\* The key a Stop hook is routed to has a failed attempt for the newest turn
\* of the hook's transcript as its last outbound message.
RetryDue(hook, K) ==
  /\ hook.event_name = "Stop"
  /\ normalize_path(hook.cwd) \in DOMAIN key_by_cwd
  /\ key_by_cwd[normalize_path(hook.cwd)] = K
  /\ K \in DOMAIN sessions_by_key
  /\ outbox[K] /= <<>>
  /\ ~outbox[K][Len(outbox[K])].ok
  /\ IsSome(latest_assistant_text_uuid(tmux[hook.transcript_path].transcript).val)
  /\ Unwrap(latest_assistant_text_uuid(tmux[hook.transcript_path].transcript).val).uuid
       = outbox[K][Len(outbox[K])].turn

\* C10: for every key with an entry, a step in which the chat adapter refuses
\* an outbound message of the key leaves the key's last_sent_message_uuid
\* unchanged; and a Stop hook routed to a key whose last attempt failed, with
\* that turn still the newest of the hook's transcript, produces a new attempt
\* for the turn.
C10_FailedSendRetried ==
  [][\A K \in DOMAIN sessions_by_key :
       /\ (Len(outbox'[K]) > Len(outbox[K]) /\ ~outbox'[K][Len(outbox'[K])].ok)
            => sessions_by_key'[K].last_sent_message_uuid
                 = sessions_by_key[K].last_sent_message_uuid
       /\ \A cwd \in DOMAIN tailer_pos :
            (HookStep(cwd) /\ RetryDue(TailerLine(cwd), K))
              => /\ Len(outbox'[K]) = Len(outbox[K]) + 1
                 /\ outbox'[K][Len(outbox'[K])].turn = outbox[K][Len(outbox[K])].turn
    ]_vars

\* A failed attempt for a turn was followed by another attempt for the same
\* turn, and last_sent_message_uuid was not set by the failure.
C10_Witness ==
  \E K \in DOMAIN sessions_by_key :
    \E i \in 1..Len(outbox[K]) :
      /\ i < Len(outbox[K])
      /\ ~outbox[K][i].ok
      /\ outbox[K][i + 1].turn = outbox[K][i].turn
      /\ outbox[K][i + 1].ok
      /\ Len(Delivered(K)) = 1

\* C11: run() returns only from select!, with the inbound channel closed, and
\* changes nothing else in that step: no error of a handler (spawn failure,
\* prompt timeout, send failure, unreadable transcript, outbound failure)
\* ends the loop.
C11_LoopSurvivesErrors ==
  [][(pc' = "returned" /\ pc /= "returned")
       => /\ pc = "select"
          /\ inbound = "closed"
          /\ UNCHANGED <<coord_maps, cur, tmux, outbox>>
    ]_vars

\* A provisioning failed earlier on a prompt timeout (its session is not the
\* one of its key), and run() is sending a later message.
C11_Witness ==
  /\ pc = "sending"
  /\ inbound = "open"
  /\ \E s \in DOMAIN tmux :
       \/ tmux[s].for_key \notin DOMAIN sessions_by_key
       \/ SessionOf(tmux[s].for_key) /= s

\* C12: once the inbound channel is closed, run() returns.
C12_ClosureTerminatesRun ==
  (inbound = "closed") ~> (pc = "returned")

\* run() has returned although a tailer still has an unread record.
C12_Witness ==
  /\ pc = "returned"
  /\ \E cwd \in Workspaces : TailerHasLine(cwd)

\* C13: handling a Stop hook whose canonicalized cwd has no key in key_by_cwd
\* changes no Coordinator map, no SessionEntry, and produces no outbound
\* message.
C13_UnregisteredHookDiscarded ==
  [][\A cwd \in DOMAIN tailer_pos :
       (/\ HookStep(cwd)
        /\ TailerLine(cwd).event_name = "Stop"
        /\ normalize_path(TailerLine(cwd).cwd) \notin DOMAIN key_by_cwd)
         => UNCHANGED <<coord_maps, outbox>>
    ]_vars

\* The tailer of a workspace with its own hook file has handed over a Stop
\* record whose cwd has no key.
C13_Witness ==
  /\ ~config.events_path_absolute
  /\ \E cwd \in DOMAIN tailer_pos :
       \E i \in 1..tailer_pos[cwd] :
         /\ hook_files[hook_paths_by_cwd[cwd]][i].hook_event_name = Some("Stop")
         /\ normalize_path(hook_files[hook_paths_by_cwd[cwd]][i].cwd)
              \notin DOMAIN key_by_cwd

\* C14: handling a hook event whose event_name is not "Stop" changes no
\* Coordinator map, no SessionEntry, and produces no outbound message.
C14_NonStopHookDiscarded ==
  [][\A cwd \in DOMAIN tailer_pos :
       (HookStep(cwd) /\ TailerLine(cwd).event_name /= "Stop")
         => UNCHANGED <<coord_maps, outbox>>
    ]_vars

\* The tailer of a workspace with its own hook file has handed over a record
\* of another event, written by the session of a key.
C14_Witness ==
  /\ ~config.events_path_absolute
  /\ \E cwd \in DOMAIN tailer_pos :
       \E i \in 1..tailer_pos[cwd] :
         /\ hook_files[hook_paths_by_cwd[cwd]][i].hook_event_name /= Some("Stop")
         /\ Unwrap(hook_files[hook_paths_by_cwd[cwd]][i].session_id) \in DOMAIN tmux
         /\ normalize_path(hook_files[hook_paths_by_cwd[cwd]][i].cwd)
              \in DOMAIN key_by_cwd

\* C15: handling a message for a key that has a session changes no Coordinator
\* map and no SessionEntry while it waits for the prompt, and when the wait
\* times out nothing is sent and the Coordinator state is still the same.
C15_PromptTimeoutNoChange ==
  [][(\/ pc = "select" /\ pc' = "send_wait"
      \/ pc = "send_wait" /\ pc' = "select")
       => UNCHANGED <<coord_maps, tmux, outbox>>
    ]_vars

\* A message for a key that has a session is waiting on a pane that is not
\* ready: the session is generating the reply to an earlier message.
C15_Witness ==
  /\ pc = "send_wait"
  /\ ~prompt_ready(capture_pane(Unwrap(cur).session_name))
  /\ tmux[Unwrap(cur).session_name].inbox /= <<>>
  /\ \E K \in DOMAIN sessions_by_key : SessionOf(K) = Unwrap(cur).session_name

\* C16: a message whose provisioning of a new key fails, at the spawn or at
\* the wait for the prompt, leaves the Coordinator maps as they were: the key
\* has no entry, its workspace no key and no hook receiver, and its
\* conversation no main key.
C16_ProvisionFailureNoChange ==
  [][/\ (pc = "select" /\ pc' = "select" /\ nmsgs' = nmsgs + 1)
          => UNCHANGED coord_maps
     /\ (pc = "prov_wait" /\ pc' = "select")
          => /\ UNCHANGED coord_maps
             /\ Unwrap(cur).key \notin DOMAIN sessions_by_key'
             /\ Unwrap(cur).cwd \notin DOMAIN key_by_cwd'
                  => Unwrap(cur).cwd \notin DOMAIN hook_paths_by_cwd'
             /\ Unwrap(cur).key.thread_id = NoneV
                  => Unwrap(cur).key.conversation_id \notin DOMAIN main_by_conversation'
    ]_vars

\* The history build_thread_context finds for a thread message of
\* conversation conv with the given timestamp; None when there is none.
SeedHistory(conv, timestamp) ==
  LET main_key == ConversationKey(conv, NoneV) IN
  IF main_key \notin DOMAIN sessions_by_key THEN NoneV
  ELSE IF ~IsSome(sessions_by_key[main_key].last_transcript_path) THEN NoneV
  ELSE LET history ==
             read_history_at(Unwrap(sessions_by_key[main_key].last_transcript_path),
                             timestamp)
       IN  IF ~history.ok \/ history.val = <<>> THEN NoneV ELSE Some(history.val)

\* C17: CLAUDE.md files change only when a thread session is provisioned, and
\* then only the one of its workspace: it is written with the filtered
\* history of the conversation's main session if that session exists with a
\* known transcript path, the history is not empty and the file does not
\* exist; otherwise it is left as it was.
C17_ThreadSeeding ==
  [][IF pc = "prov_wait" /\ pc' = "send_wait" /\ Unwrap(cur).key.thread_id /= NoneV
     THEN LET c == Unwrap(cur)
              seed == SeedHistory(c.key.conversation_id, c.timestamp)
          IN  claude_md' =
                IF IsSome(seed) /\ ~IsSome(claude_md[c.cwd])
                THEN [claude_md EXCEPT ![c.cwd] = seed]
                ELSE claude_md
     ELSE UNCHANGED claude_md
    ]_vars

\* A thread session has just been provisioned in a workspace whose CLAUDE.md
\* is the one left over, although the main session has a history to seed.
C17_Witness ==
  /\ pc = "send_wait"
  /\ \E K \in DOMAIN sessions_by_key :
       /\ K.thread_id /= NoneV
       /\ SessionOf(K) = Unwrap(cur).session_name
       /\ tmux[SessionOf(K)].inbox = <<>>
       /\ tmux[SessionOf(K)].transcript = <<>>
       /\ IsSome(SeedHistory(K.conversation_id, Some(SlackTimestamp("secs.frac", 0))))
       /\ claude_md[WorkspaceOf(K)] = Some("old")

\* C19: no step changes a settings.json or a CLAUDE.md that exists, and the
\* sessions provisioned for the same thread id, each after its own call of
\* ensure_thread_dir, run in the same directory.
C19_EnsureThreadDirIdempotent ==
  [][/\ \A w \in Workspaces :
          /\ IsSome(settings_json[w]) => settings_json'[w] = settings_json[w]
          /\ IsSome(claude_md[w]) => claude_md'[w] = claude_md[w]
     /\ \A s1, s2 \in DOMAIN tmux' :
          (/\ tmux'[s1].for_key.thread_id /= NoneV
           /\ tmux'[s1].for_key.thread_id = tmux'[s2].for_key.thread_id)
            => tmux'[s1].cwd = tmux'[s2].cwd
    ]_vars

\* ensure_thread_dir ran twice for one thread key, in a workspace left over
\* with its settings.json.
C19_Witness ==
  \E s1, s2 \in DOMAIN tmux :
    /\ s1 /= s2
    /\ tmux[s1].for_key.thread_id /= NoneV
    /\ tmux[s1].for_key = tmux[s2].for_key
    /\ settings_json[tmux[s1].cwd] = Some("old")

\* The messages of a sequence of transcript records.
MessagesOf(records) ==
  [i \in 1..Len(records) |-> [role |-> records[i].type, text |-> records[i].text]]

\* A record of type user or assistant whose text is not empty.
HasText(value) ==
  value.type \in {"user", "assistant"} /\ value.text.kind \notin {"empty", "parts"}

\* The call under study has returned Ok, and the value it returned.
ReturnedOk == IsSome(call.ret) /\ Unwrap(call.ret).ok
Returned == Unwrap(call.ret).val

\* The cutoff string of the call parses, and the time it names.
CutoffParses == IsSome(call.cutoff) /\ Unwrap(call.cutoff).form = "secs.frac"
Cutoff == Unwrap(call.cutoff).t

\* The record has a timestamp that parses.
HasTime(value) ==
  IsSome(value.timestamp) /\ IsSome(parse_iso_ts_to_nanos(Unwrap(value.timestamp)))
TimeOf(value) == Unwrap(parse_iso_ts_to_nanos(Unwrap(value.timestamp)))

\* The record's timestamp is not strictly after the cutoff of the call.
NotAfterCutoff(value) == HasTime(value) => TimeOf(value) <= Cutoff
KeptByCutoff(value) == HasText(value) /\ NotAfterCutoff(value)

\* C18 as amended: read_history with a parseable cutoff returns, in file
\* order, exactly the records of type user or assistant with a non-empty text
\* whose timestamp is missing, does not parse, or is not after the cutoff.
C18_ReadHistoryFilter ==
  (ReturnedOk /\ CutoffParses)
    => Returned = MessagesOf(SelectSeq(call.lines, KeptByCutoff))

\* read_history returned under a cutoff: a record after the cutoff was
\* dropped and a record without a timestamp was kept.
C18_Witness ==
  /\ ReturnedOk
  /\ CutoffParses
  /\ \E i \in 1..Len(call.lines) :
       HasText(call.lines[i]) /\ ~NotAfterCutoff(call.lines[i])
  /\ \E i \in 1..Len(call.lines) :
       HasText(call.lines[i]) /\ ~HasTime(call.lines[i])
  /\ Len(Returned) = 1

\* C18 as stated: the amended statement, and every record returned has a
\* timestamp that is at most the cutoff.
C18_ReturnedNotAfterCutoff ==
  (ReturnedOk /\ CutoffParses)
    => /\ Returned = MessagesOf(SelectSeq(call.lines, KeptByCutoff))
       /\ \A i \in 1..Len(call.lines) :
            KeptByCutoff(call.lines[i])
              => HasTime(call.lines[i]) /\ TimeOf(call.lines[i]) <= Cutoff

\* C20: rewriting the hook commands of a settings template a second time
\* with the same executable path changes nothing.
C20_RewriteTwiceIsOnce ==
  IsSome(call.twice) => call.twice = call.once

\* An assistant record with a text that is not blank and with a uuid.
IsTurn(value) ==
  /\ value.type = "assistant"
  /\ value.text.kind \notin {"empty", "parts"}
  /\ IsSome(value.uuid)

\* The (uuid, text) of the last turn among the lines, if there is one.
LastTurn(lines) ==
  LET turns == {i \in 1..Len(lines) : IsTurn(lines[i])} IN
  IF turns = {} THEN NoneV
  ELSE LET last == CHOOSE i \in turns : \A j \in turns : j <= i
       IN  Some([uuid |-> Unwrap(lines[last].uuid), text |-> lines[last].text])

\* Every line of the sequence is JSON or blank.
IsJson(value) == value.type /= "malformed"
AllJson(lines) == \A i \in 1..Len(lines) : IsJson(lines[i])

\* C21: on a transcript whose lines are JSON, latest_assistant_text_uuid
\* returns the uuid and text of the last assistant record that has a text
\* that is not blank and a uuid, and None when there is no such record;
\* whenever it returns Ok, that is the value.
C21_LatestAssistantTurn ==
  IsSome(call.ret)
    => /\ AllJson(call.lines) => ReturnedOk
       /\ ReturnedOk => Returned = LastTurn(call.lines)

\* The call returned the first of two records although the second is an
\* assistant record too: it has no uuid, or no text part.
C21_Witness ==
  /\ ReturnedOk
  /\ Len(call.lines) = 2
  /\ IsTurn(call.lines[1])
  /\ call.lines[2].type = "assistant"
  /\ call.lines[2].text.kind /= "empty"
  /\ ~IsTurn(call.lines[2])
  /\ Returned = Some([uuid |-> Unwrap(call.lines[1].uuid), text |-> call.lines[1].text])

\* The last 20 lines of a pane, the prompt lines among them, and the prompt
\* lines without "esc to interrupt".
Window(pane) == {i \in 1..Len(pane) : i > Len(pane) - 20}
PromptLinesIn(pane) == {i \in Window(pane) : pane[i].glyph /= "none"}
FreePromptLines(pane) == {i \in PromptLinesIn(pane) : ~pane[i].esc}

\* The lowest prompt line among the last 20 lines has no "esc to interrupt".
LowestPromptFree(pane) ==
  \E i \in FreePromptLines(pane) : \A j \in PromptLinesIn(pane) : j <= i

\* C22 as amended: a capture is ready exactly when the lowest of its last 20
\* lines that begins with a prompt glyph exists and does not contain "esc to
\* interrupt"; wait_for_prompt returns Ok only on such a capture and fails
\* only on a capture that is not one.
C22_PromptReady ==
  /\ prompt_ready(call.pane) <=> LowestPromptFree(call.pane)
  /\ IsSome(call.ret) =>
       (Unwrap(call.ret).ok <=> LowestPromptFree(call.pane))

\* wait_for_prompt timed out on a second capture that shows, among its last
\* 20 lines, a free prompt line above a prompt line with "esc to interrupt".
C22_Witness ==
  /\ IsSome(call.ret)
  /\ ~Unwrap(call.ret).ok
  /\ call.polls = 1
  /\ FreePromptLines(call.pane) /= {}
  /\ ~LowestPromptFree(call.pane)

\* C22 as stated: a capture is ready exactly when some prompt line among its
\* last 20 lines does not contain "esc to interrupt".
C22_SomePromptLineFree ==
  /\ prompt_ready(call.pane) <=> FreePromptLines(call.pane) /= {}
  /\ IsSome(call.ret) =>
       (Unwrap(call.ret).ok <=> FreePromptLines(call.pane) /= {})

\* The characters [A-Za-z0-9] among those of the thread ids.
LettersAndDigits == {"a", "Z", "7", "0"}

\* C23: the sanitized thread id has as many characters as the thread id;
\* each letter or digit of ASCII is kept and each other character is `_`.
C23_SanitizeThreadId ==
  ReturnedOk
    => /\ Len(Returned) = Len(call.thread_id)
       /\ \A i \in 1..Len(call.thread_id) :
            Returned[i] = IF call.thread_id[i] \in LettersAndDigits
                          THEN call.thread_id[i] ELSE "_"

\* A thread id of a digit, a letter outside ASCII and a letter was sanitized.
C23_Witness ==
  /\ ReturnedOk
  /\ call.thread_id = <<"7", "é", "Z">>
  /\ Returned = <<"7", "_", "Z">>

\* C24: while a handle_incoming is in progress no other message is taken off
\* the inbound channel, no hook event is handled and nothing is sent to the
\* chat, and the only entry written is the one of the key being provisioned;
\* a step that writes a Coordinator map or sends to the chat is no step of an
\* assistant or of a hook command.
C24_HandlersRunToCompletion ==
  [][/\ pc /= "select"
          => /\ nmsgs' = nmsgs
             /\ outbox' = outbox
             /\ tailer_pos' = tailer_pos
             /\ \A K \in DOMAIN sessions_by_key' :
                  \/ K \in DOMAIN sessions_by_key /\ sessions_by_key'[K] = sessions_by_key[K]
                  \/ pc = "prov_wait" /\ K = Unwrap(cur).key
     /\ (coord_maps' /= coord_maps \/ outbox' /= outbox)
          => /\ hook_files' = hook_files
             /\ \A s \in DOMAIN tmux : tmux'[s] = tmux[s]
    ]_vars

\* A hook event is waiting while a handle_incoming is in progress.
C24_Witness ==
  /\ pc \in {"prov_wait", "send_wait", "sending"}
  /\ \E cwd \in DOMAIN tailer_pos : TailerHasLine(cwd)

\* C25: the tailer of a workspace starts behind the records its file holds
\* when register_hook_receiver returns, and from then on its position moves
\* one record at a time, each time by run() handling that record.
C25_TailerEmitsAppended ==
  [][\A cwd \in DOMAIN tailer_pos' :
       IF cwd \in DOMAIN tailer_pos
       THEN tailer_pos'[cwd] /= tailer_pos[cwd]
              => /\ tailer_pos'[cwd] = tailer_pos[cwd] + 1
                 /\ pc = "select"
                 /\ handle_hook(TailerLine(cwd))
       ELSE tailer_pos'[cwd] = Len(hook_files[hook_paths_by_cwd'[cwd]])
    ]_vars

\* The assistant that owns the transcript at path has logged the user line of
\* a turn and not yet the line that completes it.
MidTurn(path) == path \in DOMAIN tmux /\ tmux[path].status = "generating"

\* handle_hook reaches latest_assistant_text_uuid in this step, on the
\* transcript the record of cwd's tailer names.
HookReads(cwd) ==
  /\ HookStep(cwd)
  /\ TailerLine(cwd).event_name = "Stop"
  /\ normalize_path(TailerLine(cwd).cwd) \in DOMAIN key_by_cwd
  /\ key_by_cwd[normalize_path(TailerLine(cwd).cwd)] \in DOMAIN sessions_by_key

\* build_thread_context reaches read_history in this step: a thread session
\* showed its prompt and the conversation's main entry has a transcript path.
SeedReads ==
  /\ pc = "prov_wait"
  /\ pc' /= "prov_wait"
  /\ prompt_ready(capture_pane(Unwrap(cur).session_name))
  /\ IsSome(Unwrap(cur).key.thread_id)
  /\ ConversationKey(Unwrap(cur).key.conversation_id, NoneV) \in DOMAIN sessions_by_key
  /\ IsSome(sessions_by_key[ConversationKey(Unwrap(cur).key.conversation_id, NoneV)]
              .last_transcript_path)

\* C26: no step in which the Coordinator reads a transcript, in handle_hook
\* or while seeding a thread workspace, is taken while the assistant that
\* owns the transcript is in the middle of a turn.
C26_ReadsAfterCompletedTurn ==
  [][/\ \A cwd \in DOMAIN tailer_pos :
          HookReads(cwd) => ~MidTurn(TailerLine(cwd).transcript_path)
     /\ SeedReads =>
          ~MidTurn(Unwrap(sessions_by_key[ConversationKey(Unwrap(cur).key.conversation_id,
                                                          NoneV)].last_transcript_path))
    ]_vars

\* C27: latest_assistant_text_uuid passes over a line that is not JSON: it
\* returns Ok with the last turn among the lines that are JSON.
C27_MalformedLineSkipped ==
  IsSome(call.ret)
    => /\ ReturnedOk
       /\ Returned = LastTurn(SelectSeq(call.lines, IsJson))

\* A hook file line with everything parse_hook_line asks for: JSON with
\* hook_event_name, session_id, and transcript_path or agent_transcript_path.
WellFormedLine(line) ==
  /\ line.form = "json"
  /\ IsSome(line.hook_event_name)
  /\ IsSome(line.session_id)
  /\ IsSome(line.transcript_path) \/ IsSome(line.agent_transcript_path)

\* C28: a tailer passes its lines one at a time; passing a line that is not
\* well formed changes nothing but the tailer's position (no HookEvent
\* reaches run()), and a well-formed line is passed only by run() handling
\* the HookEvent made of it, whatever lines came before it.
C28_MalformedHookLineSkipped ==
  [][\A cwd \in DOMAIN tailer_pos :
       tailer_pos'[cwd] /= tailer_pos[cwd]
         => /\ tailer_pos'[cwd] = tailer_pos[cwd] + 1
            /\ IF WellFormedLine(NextLine(cwd))
               THEN /\ pc = "select"
                    /\ handle_hook(
                         HookEvent(Unwrap(NextLine(cwd).hook_event_name),
                                   Unwrap(NextLine(cwd).session_id),
                                   NextLine(cwd).cwd,
                                   IF IsSome(NextLine(cwd).transcript_path)
                                   THEN Unwrap(NextLine(cwd).transcript_path)
                                   ELSE Unwrap(NextLine(cwd).agent_transcript_path)))
               ELSE UNCHANGED <<coord_maps, outbox, pc, cur, tmux>>
    ]_vars

\* The first line of a hook file does not parse, the second is a Stop line,
\* the tailer has passed both and the turn has been sent to the chat.
C28_Witness ==
  \E cwd \in DOMAIN tailer_pos :
    /\ tailer_pos[cwd] = 2
    /\ hook_files[hook_paths_by_cwd[cwd]][1].form /= "blank"
    /\ ~WellFormedLine(hook_files[hook_paths_by_cwd[cwd]][1])
    /\ WellFormedLine(hook_files[hook_paths_by_cwd[cwd]][2])
    /\ \E K \in DOMAIN outbox : outbox[K] /= <<>>

\* The sequence a is b with some elements left out.
RECURSIVE IsSubSeq(_, _)
IsSubSeq(a, b) ==
  IF a = <<>> THEN TRUE
  ELSE IF b = <<>> THEN FALSE
  ELSE IF Head(a) = Head(b) THEN IsSubSeq(Tail(a), Tail(b))
  ELSE IsSubSeq(a, Tail(b))

\* A record with a text and without a timestamp that parses.
Untimed(value) == HasText(value) /\ ~HasTime(value)

\* C29: read_history with a cutoff string that does not parse returns what it
\* returns without cutoff, the messages of all records of type user or
\* assistant with a text; with a cutoff that parses, the records whose
\* timestamp is missing or does not parse are all among the messages returned.
C29_UnparseableTimestamps ==
  /\ (IsSome(call.ret) /\ ~CutoffParses)
       => /\ ReturnedOk <=> AllJson(call.lines)
          /\ ReturnedOk => Returned = MessagesOf(SelectSeq(call.lines, HasText))
  /\ (ReturnedOk /\ CutoffParses)
       => IsSubSeq(MessagesOf(SelectSeq(call.lines, Untimed)), Returned)

\* read_history returned under a cutoff string without fraction: a record
\* with a timestamp after the time the string names was kept.
C29_Witness ==
  /\ ReturnedOk
  /\ IsSome(call.cutoff)
  /\ Unwrap(call.cutoff).form = "secs"
  /\ \E i \in 1..Len(call.lines) :
       /\ HasText(call.lines[i])
       /\ HasTime(call.lines[i])
       /\ TimeOf(call.lines[i]) > Unwrap(call.cutoff).t
  /\ Len(Returned) = Len(call.lines)

\* The bytes of a hook command's standard input, plus one newline if they do
\* not end with one.
Record(p) ==
  IF call.procs[p].stdin /= <<>> /\ call.procs[p].stdin[Len(call.procs[p].stdin)] = "\n"
  THEN call.procs[p].stdin
  ELSE call.procs[p].stdin \o <<"\n">>

\* The records of the hook commands in the order of their writes.
RECURSIVE Records(_)
Records(order) ==
  IF order = <<>> THEN <<>> ELSE Record(Head(order)) \o Records(Tail(order))

\* The bytes are one whole line of the record of p, newline left out.
LineOf(line, p) ==
  \E i \in 1..Len(Record(p)) :
    /\ i = 1 \/ Record(p)[i - 1] = "\n"
    /\ i + Len(line) <= Len(Record(p))
    /\ Record(p)[i + Len(line)] = "\n"
    /\ \A k \in 1..Len(line) : line[k] = Record(p)[i + k - 1] /\ line[k] /= "\n"

C31_ContextAfterPromptBeforeSend ==
  [][claude_md' /= claude_md
       => /\ IsSome(cur)
          /\ "key" \in DOMAIN Unwrap(cur)
          /\ IsSome(Unwrap(cur).key.thread_id)
          /\ Unwrap(cur).session_name \in prompt_seen
          /\ tmux[Unwrap(cur).session_name].inbox = <<>>
          /\ tmux[Unwrap(cur).session_name].transcript = <<>>
          /\ tmux' = tmux
          /\ Unwrap(cur).key \notin DOMAIN sessions_by_key
          /\ sessions_by_key' = sessions_by_key
          /\ \A w \in DOMAIN claude_md : w /= Unwrap(cur).cwd => claude_md'[w] = claude_md[w]
    ]_vars

\* The context of a thread workspace has been written and the entry of the
\* thread's key is still to be inserted.
C31_Witness ==
  /\ pc = "prov_insert"
  /\ IsSome(Unwrap(cur).key.thread_id)
  /\ IsSome(claude_md[Unwrap(cur).cwd])
  /\ Unwrap(cur).key \notin DOMAIN sessions_by_key

\* run() handles, in this step, a Stop record that handle_hook routes to K.
StopRoutedTo(K) ==
  \E cwd \in DOMAIN tailer_pos :
    /\ HookStep(cwd)
    /\ TailerLine(cwd).event_name = "Stop"
    /\ normalize_path(TailerLine(cwd).cwd) \in DOMAIN key_by_cwd
    /\ key_by_cwd[normalize_path(TailerLine(cwd).cwd)] = K

\* C32: a key gets its SessionEntry in a step of the handle_incoming of a
\* message for that key, with no transcript path; an entry is never removed
\* and its session_name never changes; its last_transcript_path changes only
\* when run() handles a Stop hook routed to the key.
C32_SessionLifecycle ==
  [][/\ \A K \in DOMAIN sessions_by_key :
          /\ K \in DOMAIN sessions_by_key'
          /\ sessions_by_key'[K].session_name = sessions_by_key[K].session_name
          /\ sessions_by_key'[K].last_transcript_path /= sessions_by_key[K].last_transcript_path
               => StopRoutedTo(K)
     /\ \A K \in DOMAIN sessions_by_key' \ DOMAIN sessions_by_key :
          /\ pc = "prov_wait"
          /\ Unwrap(cur).key = K
          /\ sessions_by_key'[K].session_name = Unwrap(cur).session_name
          /\ sessions_by_key'[K].last_transcript_path = NoneV
    ]_vars

\* Both keys of a conversation have an entry; the first Stop hook of one has
\* been handled and none of the other.
C32_Witness ==
  \E K1, K2 \in DOMAIN sessions_by_key :
    /\ K1 /= K2
    /\ IsSome(sessions_by_key[K1].last_transcript_path)
    /\ ~IsSome(sessions_by_key[K2].last_transcript_path)

\* The days from 1970-01-01 to the first day of a year: 365 for every year in
\* between and one more for every leap year.
DaysBeforeYear(year) ==
  IF year >= 1970
  THEN 365 * (year - 1970) + Cardinality({k \in 1970..(year - 1) : IsLeap(k)})
  ELSE 0 - (365 * (1970 - year) + Cardinality({k \in year..1969 : IsLeap(k)}))

\* The days from the first day of a year to the first day of a month.
RECURSIVE DaysBeforeMonth(_, _)
DaysBeforeMonth(year, month) ==
  IF month = 1 THEN 0
  ELSE DaysBeforeMonth(year, month - 1) + DaysInMonth(year, month - 1)

\* The days from 1970-01-01 to a calendar date, and the date after a date.
EpochDay(d) == DaysBeforeYear(d.year) + DaysBeforeMonth(d.year, d.month) + d.day - 1
Tomorrow(d) ==
  IF d.day < DaysInMonth(d.year, d.month) THEN [d EXCEPT !.day = @ + 1]
  ELSE IF d.month < 12 THEN [d EXCEPT !.month = @ + 1, !.day = 1]
  ELSE [year |-> d.year + 1, month |-> 1, day |-> 1]

\* The digits after the point as nanoseconds: the i-th digit counts
\* 10^(9 - i), digits after the ninth count nothing.
RECURSIVE FractionNanos(_, _)
FractionNanos(frac, i) ==
  IF i > Len(frac) \/ i > 9 THEN 0
  ELSE DigitValue(frac[i]) * Pow10(9 - i) + FractionNanos(frac, i + 1)
DigitsOnly(frac) == \A i \in 1..Len(frac) : i <= 9 => IsDigit(frac[i])

\* The date of the timestamp under study.
CallDate == [year |-> call.ts.year, month |-> call.ts.month, day |-> call.ts.day]

\* C33: days_from_civil gives 0 for 1970-01-01, the days since then for every
\* date, and one day more for the date after it; a timestamp with Z converts
\* to these days, the seconds of its time and its fraction in nanoseconds, a
\* cutoff to its seconds and its fraction in nanoseconds; 2024-01-01T00:00:00Z
\* is not after the cutoff 1704067205.000000 and 2024-01-01T00:10:00Z is.
C33_TimestampConversion ==
  /\ days_from_civil(1970, 1, 1) = 0
  /\ days_from_civil(CallDate.year, CallDate.month, CallDate.day) = EpochDay(CallDate)
  /\ days_from_civil(Tomorrow(CallDate).year, Tomorrow(CallDate).month, Tomorrow(CallDate).day)
       = days_from_civil(CallDate.year, CallDate.month, CallDate.day) + 1
  /\ IsSome(call.ret)
       => /\ Unwrap(call.ret).ts_nanos =
               IF call.ts.z /\ DigitsOnly(call.ts.frac)
               THEN Some(Nanos(EpochDay(CallDate),
                               call.ts.hour * 3600 + call.ts.minute * 60 + call.ts.second,
                               FractionNanos(call.ts.frac, 1)))
               ELSE NoneV
          /\ Unwrap(call.ret).cutoff =
               Some(Nanos(call.cutoff.secs \div 86400, call.cutoff.secs % 86400,
                          FractionNanos(call.cutoff.frac, 1)))
          /\ (/\ call.ts = IsoString(TRUE, 2024, 1, 1, 0, 0, 0, <<>>)
              /\ call.cutoff = SlackString(1704067205, <<"0", "0", "0", "0", "0", "0">>))
               => ~Unwrap(call.ret).dropped
          /\ (/\ call.ts = IsoString(TRUE, 2024, 1, 1, 0, 10, 0, <<>>)
              /\ call.cutoff = SlackString(1704067205, <<"0", "0", "0", "0", "0", "0">>))
               => Unwrap(call.ret).dropped

\* 2024-01-01T00:10:00Z was compared with the cutoff 1704067205.000000: it is
\* 600 seconds into day 19723, the cutoff 5 seconds, and the record is dropped.
C33_Witness ==
  /\ IsSome(call.ret)
  /\ call.ts = IsoString(TRUE, 2024, 1, 1, 0, 10, 0, <<>>)
  /\ call.cutoff = SlackString(1704067205, <<"0", "0", "0", "0", "0", "0">>)
  /\ Unwrap(call.ret).ts_nanos = Some(Nanos(19723, 600, 0))
  /\ Unwrap(call.ret).cutoff = Some(Nanos(19723, 5, 0))
  /\ Unwrap(call.ret).dropped

\* The arrival numbers of the texts sent to a session so far, in the order
\* the session got them: those it has logged as user lines, then those still
\* waiting (the one it is working on is logged already).
SentTo(s) ==
  LET logged == SelectSeq(tmux[s].transcript, LAMBDA r : r.type = "user")
      waiting == IF tmux[s].status = "generating" THEN Tail(tmux[s].inbox)
                 ELSE tmux[s].inbox
  IN  [i \in 1..Len(logged) |-> logged[i].text.n] \o [i \in 1..Len(waiting) |-> waiting[i].n]

C35_RecordHandledOnce ==
  [][\A cwd \in DOMAIN tailer_pos :
       (HookStep(cwd) /\ NextLine(cwd).form /= "blank" /\ parse_hook_line(NextLine(cwd)).ok)
         => \A other \in DOMAIN tailer_pos \ {cwd} :
              hook_paths_by_cwd[other] = hook_paths_by_cwd[cwd]
                => tailer_pos[other] > tailer_pos[cwd]
    ]_vars

====
